---- MODULE Spec2Model ----
(***************************************************************************)
(* Model of the navgate parking-availability core: the period classifier   *)
(* and the lot status engine of src/lib/availability.ts, driven by the     *)
(* periodic clock tick of components/ParkingMap.tsx.                        *)
(***************************************************************************)
EXTENDS Integers, Sequences, FiniteSets, TLC

VARIABLES
  easternTime, statuses,            \* ParkingMap: the clock and the lot statuses
  timeString, parsedMinutes,        \* a departure string and its minute of day
  cardRoute, shuttleTime, activeVehicles,  \* ShuttlePanel: card, clock, vehicles
  encoded, shapePoints,             \* ShuttleLayer: a shape and its decoded points
  point, polyline, distance,        \* a position, a route shape and their distance
  search, statusFilters, categoryFilters, selectedLot,  \* ParkingMap: filters
  userLocation, nearMeActive, locatingUser,  \* ParkingMap: proximity mode
  geolocation,                      \* the browser's position request
  apiRoutes, visibleRouteIDs,       \* ParkingMap: fetched routes, checked routes
  prevLive, baselineSet,            \* ShuttlePanel: prevLiveRef, baselineSetRef
  processedVehicles,                \* the snapshot the auto-toggle effect last ran for
  shuttleMode                       \* ParkingMap: the shuttle panel is shown

vars ==
  <<easternTime, statuses, timeString, parsedMinutes,
    cardRoute, shuttleTime, activeVehicles, encoded, shapePoints,
    point, polyline, distance,
    search, statusFilters, categoryFilters, selectedLot,
    userLocation, nearMeActive, locatingUser, geolocation,
    apiRoutes, visibleRouteIDs, prevLive, baselineSet, processedVehicles,
    shuttleMode>>

toggleVars ==
  <<apiRoutes, visibleRouteIDs, prevLive, baselineSet, processedVehicles, shuttleMode>>

geoVars == <<point, polyline, distance>>

filterVars == <<search, statusFilters, categoryFilters, selectedLot>>

nearMeVars == <<userLocation, nearMeActive, locatingUser, geolocation>>

(***************************************************************************)
(* data/rules: period boundaries, in minutes from midnight.                *)
(***************************************************************************)
OVERNIGHT_START == 3 * 60

BUSINESS_START == 7 * 60

OPEN_START == 16 * 60 + 30

TRANSITION_WINDOW == 30

\* the literal 24 * 60 used by getCurrentPeriod and minutesUntil
MinutesPerDay == 24 * 60

(***************************************************************************)
(* types: LotCategory, StatusColor, StatusLabel.                           *)
(***************************************************************************)
LotCategory == {"student", "employee", "restricted"}

StatusColor == {"green", "yellow", "orange", "red"}

StatusLabel == {"Available", "Available soon", "Unavailable soon", "Not available"}

\* A reason string (its em dash written "-"): a fixed text, or a template text together with the minute
\* count interpolated into it.
Reason(text) == <<text>>

ReasonMin(text, count) == <<text, count>>

LotStatus(color, label, reason) == [color |-> color, label |-> label, reason |-> reason]

\* The static lot table: one lot per (category, overnightExempt) combination.
parkingLots ==
  [category : LotCategory, overnightExempt : BOOLEAN]

(***************************************************************************)
(* lib/time-utils.ts                                                       *)
(***************************************************************************)
isWeekend(dayOfWeek) == dayOfWeek = 0 \/ dayOfWeek = 6

\* The descriptors getEasternTime can produce: hour*60+minute, Sunday = 0.
EasternTime ==
  [minutesSinceMidnight : 0 .. (MinutesPerDay - 1), dayOfWeek : 0 .. 6]

(***************************************************************************)
(* lib/availability.ts                                                     *)
(***************************************************************************)
getCurrentPeriod_offByOne(mins) ==
  IF mins < OVERNIGHT_START \/ mins >= OVERNIGHT_START + MinutesPerDay
  THEN "open"
  ELSE IF mins >= OVERNIGHT_START /\ mins <= BUSINESS_START THEN "overnight"
  ELSE IF mins >= BUSINESS_START /\ mins < OPEN_START THEN "business"
  ELSE "open"

getCurrentPeriod(mins) ==
  IF mins < OVERNIGHT_START \/ mins >= OVERNIGHT_START + MinutesPerDay
  THEN "open"
  ELSE IF mins >= OVERNIGHT_START /\ mins < BUSINESS_START THEN "overnight"
  ELSE IF mins >= BUSINESS_START /\ mins < OPEN_START THEN "business"
  ELSE "open"

minutesUntil_short(current, target) ==
  IF target > current THEN target - current - 1
  ELSE target + MinutesPerDay - current

minutesUntil(current, target) ==
  IF target > current THEN target - current
  ELSE target + MinutesPerDay - current

\* getLotStatus, overnight period, lot.overnightExempt branch
overnightExemptStatus_noWeekend(lot, mins, weekend) ==
  LET minsUntilBusinessStart == minutesUntil(mins, BUSINESS_START) IN
  IF minsUntilBusinessStart <= TRANSITION_WINDOW /\ lot.category = "employee"
  THEN LotStatus("orange", "Unavailable soon",
                 ReasonMin("Employee lot - closes at 7:00 AM", minsUntilBusinessStart))
  ELSE LotStatus("green", "Available",
                 Reason("Overnight exempt - parking allowed 24/7"))

overnightExemptStatus(lot, mins, weekend) ==
  LET minsUntilBusinessStart == minutesUntil(mins, BUSINESS_START) IN
  IF minsUntilBusinessStart <= TRANSITION_WINDOW
     /\ lot.category = "employee" /\ ~weekend
  THEN LotStatus("orange", "Unavailable soon",
                 ReasonMin("Employee lot - closes at 7:00 AM", minsUntilBusinessStart))
  ELSE LotStatus("green", "Available",
                 Reason("Overnight exempt - parking allowed 24/7"))

\* getLotStatus, overnight period, non-exempt lots
overnightRestrictedStatus_and(lot, mins, weekend) ==
  LET minsUntilBusinessStart == minutesUntil(mins, BUSINESS_START) IN
  IF minsUntilBusinessStart <= TRANSITION_WINDOW
     /\ (lot.category = "student" /\ weekend)
  THEN LotStatus("yellow", "Available soon",
                 ReasonMin("Available at 7:00 AM", minsUntilBusinessStart))
  ELSE IF minsUntilBusinessStart <= TRANSITION_WINDOW /\ lot.category = "employee"
  THEN LotStatus("red", "Not available",
                 Reason("Employee lot - not available until 4:30 PM"))
  ELSE LotStatus("red", "Not available",
                 Reason("Overnight restriction (3-7 AM) - no parking"))

overnightRestrictedStatus(lot, mins, weekend) ==
  LET minsUntilBusinessStart == minutesUntil(mins, BUSINESS_START) IN
  IF minsUntilBusinessStart <= TRANSITION_WINDOW
     /\ (lot.category = "student" \/ weekend)
  THEN LotStatus("yellow", "Available soon",
                 ReasonMin("Available at 7:00 AM", minsUntilBusinessStart))
  ELSE IF minsUntilBusinessStart <= TRANSITION_WINDOW /\ lot.category = "employee"
  THEN LotStatus("red", "Not available",
                 Reason("Employee lot - not available until 4:30 PM"))
  ELSE LotStatus("red", "Not available",
                 Reason("Overnight restriction (3-7 AM) - no parking"))

\* getLotStatus, weekend outside the overnight period
weekendStatus_noBusinessGuard(lot, mins) ==
  LET minsUntilOvernight == minutesUntil(mins, OVERNIGHT_START) IN
  IF minsUntilOvernight <= TRANSITION_WINDOW /\ ~lot.overnightExempt
  THEN LotStatus("orange", "Unavailable soon",
                 ReasonMin("Overnight restriction at 3:00 AM", minsUntilOvernight))
  ELSE LotStatus("green", "Available",
                 Reason("Weekend - all lots open"))

\* weekendStatus whose window applies at or after business start as well
weekendStatus_orBusiness(lot, mins) ==
  LET minsUntilOvernight == minutesUntil(mins, OVERNIGHT_START) IN
  IF (minsUntilOvernight <= TRANSITION_WINDOW /\ ~lot.overnightExempt)
     \/ mins >= BUSINESS_START
  THEN LotStatus("orange", "Unavailable soon",
                 ReasonMin("Overnight restriction at 3:00 AM", minsUntilOvernight))
  ELSE LotStatus("green", "Available",
                 Reason("Weekend - all lots open"))

weekendStatus(lot, mins) ==
  LET minsUntilOvernight == minutesUntil(mins, OVERNIGHT_START) IN
  IF minsUntilOvernight <= TRANSITION_WINDOW
     /\ ~lot.overnightExempt
     /\ mins >= BUSINESS_START
  THEN LotStatus("orange", "Unavailable soon",
                 ReasonMin("Overnight restriction at 3:00 AM", minsUntilOvernight))
  ELSE LotStatus("green", "Available",
                 Reason("Weekend - all lots open"))

\* getLotStatus, weekday business hours
businessStatus_strict(lot, mins) ==
  LET minsUntilOpen == minutesUntil(mins, OPEN_START) IN
  IF lot.category = "student"
  THEN LotStatus("green", "Available",
                 Reason("Student lot - available during business hours"))
  ELSE IF minsUntilOpen < TRANSITION_WINDOW
  THEN LotStatus("yellow", "Available soon",
                 ReasonMin("Open hours start at 4:30 PM", minsUntilOpen))
  ELSE LotStatus("red", "Not available",
                 Reason("Employee lot - available after 4:30 PM"))

\* businessStatus whose yellow status carries the label of a green one
businessStatus_greenLabel(lot, mins) ==
  LET minsUntilOpen == minutesUntil(mins, OPEN_START) IN
  IF lot.category = "student"
  THEN LotStatus("green", "Available",
                 Reason("Student lot - available during business hours"))
  ELSE IF minsUntilOpen <= TRANSITION_WINDOW
  THEN LotStatus("yellow", "Available",
                 ReasonMin("Open hours start at 4:30 PM", minsUntilOpen))
  ELSE LotStatus("red", "Not available",
                 Reason("Employee lot - available after 4:30 PM"))

businessStatus(lot, mins) ==
  LET minsUntilOpen == minutesUntil(mins, OPEN_START) IN
  IF lot.category = "student"
  THEN LotStatus("green", "Available",
                 Reason("Student lot - available during business hours"))
  ELSE IF minsUntilOpen <= TRANSITION_WINDOW
  THEN LotStatus("yellow", "Available soon",
                 ReasonMin("Open hours start at 4:30 PM", minsUntilOpen))
  ELSE LotStatus("red", "Not available",
                 Reason("Employee lot - available after 4:30 PM"))

\* getLotStatus, weekday open hours
openStatus_noExemptCheck(lot, mins) ==
  LET minsUntilOvernight == minutesUntil(mins, OVERNIGHT_START) IN
  IF lot.category = "student"
  THEN LotStatus("green", "Available",
                 Reason("Student lot - always available"))
  ELSE IF minsUntilOvernight <= TRANSITION_WINDOW
  THEN LotStatus("orange", "Unavailable soon",
                 ReasonMin("Overnight restriction at 3:00 AM", minsUntilOvernight))
  ELSE LotStatus("green", "Available",
                 Reason("Open hours - all lots available"))

openStatus(lot, mins) ==
  LET minsUntilOvernight == minutesUntil(mins, OVERNIGHT_START) IN
  IF lot.category = "student"
  THEN LotStatus("green", "Available",
                 Reason("Student lot - always available"))
  ELSE IF ~lot.overnightExempt /\ minsUntilOvernight <= TRANSITION_WINDOW
  THEN LotStatus("orange", "Unavailable soon",
                 ReasonMin("Overnight restriction at 3:00 AM", minsUntilOvernight))
  ELSE LotStatus("green", "Available",
                 Reason("Open hours - all lots available"))

restrictedStatus ==
  LotStatus("red", "Not available",
            Reason("Restricted - accessible parking only"))

getLotStatus_restrictedLate(lot, et) ==
  LET mins == et.minutesSinceMidnight
      weekend == isWeekend(et.dayOfWeek)
      period == getCurrentPeriod(mins)
  IN  IF period = "overnight"
      THEN IF lot.overnightExempt
           THEN overnightExemptStatus(lot, mins, weekend)
           ELSE overnightRestrictedStatus(lot, mins, weekend)
      ELSE IF weekend THEN weekendStatus(lot, mins)
      ELSE IF lot.category = "restricted" THEN restrictedStatus
      ELSE IF period = "business" THEN businessStatus(lot, mins)
      ELSE openStatus(lot, mins)

getLotStatus_overnightBeforeThree(lot, et) ==
  LET mins == et.minutesSinceMidnight
      weekend == isWeekend(et.dayOfWeek)
      period == IF mins < BUSINESS_START THEN "overnight" ELSE getCurrentPeriod(mins)
  IN  IF lot.category = "restricted" THEN restrictedStatus
      ELSE IF period = "overnight"
      THEN IF lot.overnightExempt
           THEN overnightExemptStatus(lot, mins, weekend)
           ELSE overnightRestrictedStatus(lot, mins, weekend)
      ELSE IF weekend THEN weekendStatus(lot, mins)
      ELSE IF period = "business" THEN businessStatus(lot, mins)
      ELSE openStatus(lot, mins)

getLotStatus(lot, et) ==
  LET mins == et.minutesSinceMidnight
      weekend == isWeekend(et.dayOfWeek)
      period == getCurrentPeriod(mins)
  IN  IF lot.category = "restricted" THEN restrictedStatus
      ELSE IF period = "overnight"
      THEN IF lot.overnightExempt
           THEN overnightExemptStatus(lot, mins, weekend)
           ELSE overnightRestrictedStatus(lot, mins, weekend)
      ELSE IF weekend THEN weekendStatus(lot, mins)
      ELSE IF period = "business" THEN businessStatus(lot, mins)
      ELSE openStatus(lot, mins)

(***************************************************************************)
(* JavaScript values and built-ins used by the schedule helpers.  A number *)
(* is <<n>> or NaN; strings are TLA+ strings read one character at a time. *)
(***************************************************************************)
Num(n) == <<n>>

NaN == <<>>

jsAdd(a, b) == IF a = NaN \/ b = NaN THEN NaN ELSE Num(a[1] + b[1])

jsSub(a, b) == IF a = NaN \/ b = NaN THEN NaN ELSE Num(a[1] - b[1])

jsMul(a, b) == IF a = NaN \/ b = NaN THEN NaN ELSE Num(a[1] * b[1])

\* every comparison with NaN is false
jsGt(a, b) == a # NaN /\ b # NaN /\ a[1] > b[1]

jsLt(a, b) == a # NaN /\ b # NaN /\ a[1] < b[1]

jsGe(a, b) == a # NaN /\ b # NaN /\ a[1] >= b[1]

jsLe(a, b) == a # NaN /\ b # NaN /\ a[1] <= b[1]

charAt(s, i) == SubSeq(s, i, i)

RECURSIVE indexOfFrom(_, _, _)
indexOfFrom(s, ch, i) ==
  IF i > Len(s) THEN 0
  ELSE IF charAt(s, i) = ch THEN i
  ELSE indexOfFrom(s, ch, i + 1)

\* String.prototype.split with a one-character separator
RECURSIVE split(_, _)
split(s, sep) ==
  LET i == indexOfFrom(s, sep, 1) IN
  IF i = 0 THEN <<s>>
  ELSE <<SubSeq(s, 1, i - 1)>> \o split(SubSeq(s, i + 1, Len(s)), sep)

DigitChars == "0123456789"

digitValue(ch) == indexOfFrom(DigitChars, ch, 1) - 1

RECURSIVE parseDigits(_, _, _)
parseDigits(s, i, acc) ==
  IF i > Len(s) \/ digitValue(charAt(s, i)) < 0 THEN acc
  ELSE parseDigits(s, i + 1, acc * 10 + digitValue(charAt(s, i)))

RECURSIVE skipSpaces(_, _)
skipSpaces(s, i) ==
  IF i <= Len(s) /\ charAt(s, i) = " " THEN skipSpaces(s, i + 1) ELSE i

\* parseInt(s, 10): leading blanks, an optional sign, then the longest run of
\* digits; NaN when there is no digit there.
parseInt(s) ==
  LET start == skipSpaces(s, 1)
      signed == start <= Len(s) /\ charAt(s, start) \in {"-", "+"}
      first == IF signed THEN start + 1 ELSE start
  IN  IF first > Len(s) \/ digitValue(charAt(s, first)) < 0 THEN NaN
      ELSE IF signed /\ charAt(s, start) = "-"
      THEN Num(0 - parseDigits(s, first, 0))
      ELSE Num(parseDigits(s, first, 0))

LowerChars == "abcdefghijklmnopqrstuvwxyz"

UpperChars == "ABCDEFGHIJKLMNOPQRSTUVWXYZ"

RECURSIVE toUpperCase(_)
toUpperCase(s) ==
  IF Len(s) = 0 THEN ""
  ELSE LET i == indexOfFrom(LowerChars, charAt(s, 1), 1) IN
       (IF i = 0 THEN charAt(s, 1) ELSE charAt(UpperChars, i))
         \o toUpperCase(SubSeq(s, 2, Len(s)))

\* the string an undefined value is coerced to
Undefined == "undefined"

\* the outcome of a call: a returned value or a thrown error
Returned(value) == [error |-> "none", value |-> value]

Thrown(error) == [error |-> error, value |-> NaN]

(***************************************************************************)
(* lib/time-utils.ts: the 12-hour display string of getEasternTime.        *)
(***************************************************************************)
digitChar(d) == charAt(DigitChars, d + 1)

\* Number.prototype.toString for 0 .. 99
numberToString(n) ==
  IF n < 10 THEN digitChar(n) ELSE digitChar(n \div 10) \o digitChar(n % 10)

\* padStart(2, "0")
padStart2(str) == IF Len(str) < 2 THEN "0" \o str ELSE str

formatTime(hour, minute) ==
  LET h == IF hour % 12 = 0 THEN 12 ELSE hour % 12
      ampm == IF hour >= 12 THEN "PM" ELSE "AM"
  IN  numberToString(h) \o ":" \o padStart2(numberToString(minute)) \o " " \o ampm

\* every "H:MM AM|PM" string, H in 1..12 and MM in 00..59
WellFormedTimes == {formatTime(hour, minute) : hour \in 0 .. 23, minute \in 0 .. 59}

\* departure strings that are not a 12-hour "H:MM AM|PM" time
MalformedTimes ==
  {"", "noon", "7 AM", "7:04AM", "7:04  PM", "7:04 XM", "7:3O AM",
   "7:61 AM", "13:00 PM", "x:15 PM"}

TimeStrings == WellFormedTimes \cup MalformedTimes

(***************************************************************************)
(* data/shuttle-schedules: parseTime, toMinutes, getNextDeparture,         *)
(* isScheduleActive.                                                       *)
(***************************************************************************)
\* "H:MM AM" / "H:MM PM" -> { hour, minute }; meridiem.toUpperCase() throws a
\* TypeError when the string has no blank.
parseTime_noMidnight(t) ==
  LET parts == split(t, " ")
      time == parts[1]
      hm == split(time, ":")
      hStr == hm[1]
      mStr == IF Len(hm) >= 2 THEN hm[2] ELSE Undefined
      h == parseInt(hStr)
      m == parseInt(mStr)
  IN  IF Len(parts) < 2 THEN Thrown("TypeError")
      ELSE LET isPM == toUpperCase(parts[2]) = "PM"
               hour == IF isPM /\ h # Num(12) THEN jsAdd(h, Num(12)) ELSE h
           IN  Returned([hour |-> hour, minute |-> m])

parseTime(t) ==
  LET parts == split(t, " ")
      time == parts[1]
      hm == split(time, ":")
      hStr == hm[1]
      mStr == IF Len(hm) >= 2 THEN hm[2] ELSE Undefined
      h == parseInt(hStr)
      m == parseInt(mStr)
  IN  IF Len(parts) < 2 THEN Thrown("TypeError")
      ELSE LET isPM == toUpperCase(parts[2]) = "PM"
               hour == IF isPM /\ h # Num(12) THEN jsAdd(h, Num(12))
                       ELSE IF ~isPM /\ h = Num(12) THEN Num(0)
                       ELSE h
           IN  Returned([hour |-> hour, minute |-> m])

\* toMinutes of every time string of the model, computed once
minutesOfDay ==
  [t \in TimeStrings |->
     LET parsed == parseTime(t) IN
     IF parsed.error # "none" THEN Thrown(parsed.error)
     ELSE Returned(jsAdd(jsMul(parsed.value.hour, Num(60)), parsed.value.minute))]

toMinutes(t) == minutesOfDay[t]

\* a departure string, or NULL
NULL == <<>>

Found(dep) == <<dep>>

RECURSIVE nextDepartureFrom(_, _, _)
nextDepartureFrom(departures, i, currentMinutes) ==
  IF i > Len(departures) THEN Returned(NULL)
  ELSE LET depMinutes == toMinutes(departures[i]) IN
       IF depMinutes.error # "none" THEN Thrown(depMinutes.error)
       ELSE IF jsGt(depMinutes.value, Num(currentMinutes))
       THEN Returned(Found(departures[i]))
       ELSE nextDepartureFrom(departures, i + 1, currentMinutes)

\* getNextDeparture that also returns a departure leaving at the current minute
getNextDeparture_inclusive(schedule, now) ==
  nextDepartureFrom(schedule.departures, 1, now.minutesSinceMidnight - 1)

getNextDeparture(schedule, now) ==
  nextDepartureFrom(schedule.departures, 1, now.minutesSinceMidnight)

includes(list, x) == \E i \in 1 .. Len(list) : list[i] = x

\* isScheduleActive without the 5-minute window before the first departure
isScheduleActive_noGrace(schedule, now) ==
  IF ~includes(schedule.daysOfWeek, now.dayOfWeek) THEN Returned(FALSE)
  ELSE IF Len(schedule.departures) = 0 THEN Returned(FALSE)
  ELSE
    LET first == toMinutes(schedule.departures[1])
        last == toMinutes(schedule.departures[Len(schedule.departures)])
        lastStopOffset ==
          IF Len(schedule.stops) = 0 THEN 0
          ELSE schedule.stops[Len(schedule.stops)].offset
        currentMinutes == Num(now.minutesSinceMidnight)
    IN  IF first.error # "none" THEN Thrown(first.error)
        ELSE IF last.error # "none" THEN Thrown(last.error)
        ELSE IF jsLt(last.value, first.value)
        THEN Returned(jsGe(currentMinutes, first.value)
                      \/ jsLe(currentMinutes, jsAdd(last.value, Num(lastStopOffset))))
        ELSE Returned(jsGe(currentMinutes, first.value)
                      /\ jsLe(currentMinutes, jsAdd(last.value, Num(lastStopOffset))))

\* isScheduleActive without the empty-departures guard: departures[0] is
\* undefined and toMinutes(undefined) throws
isScheduleActive_noEmptyGuard(schedule, now) ==
  IF ~includes(schedule.daysOfWeek, now.dayOfWeek) THEN Returned(FALSE)
  ELSE IF Len(schedule.departures) = 0 THEN Thrown("TypeError")
  ELSE
    LET first == toMinutes(schedule.departures[1])
        last == toMinutes(schedule.departures[Len(schedule.departures)])
        lastStopOffset ==
          IF Len(schedule.stops) = 0 THEN 0
          ELSE schedule.stops[Len(schedule.stops)].offset
        currentMinutes == Num(now.minutesSinceMidnight)
    IN  IF first.error # "none" THEN Thrown(first.error)
        ELSE IF last.error # "none" THEN Thrown(last.error)
        ELSE IF jsLt(last.value, first.value)
        THEN Returned(jsGe(currentMinutes, first.value)
                      \/ jsLe(currentMinutes, jsAdd(last.value, Num(lastStopOffset))))
        ELSE Returned(jsGe(currentMinutes, jsSub(first.value, Num(5)))
                      /\ jsLe(currentMinutes, jsAdd(last.value, Num(lastStopOffset))))

isScheduleActive(schedule, now) ==
  IF ~includes(schedule.daysOfWeek, now.dayOfWeek) THEN Returned(FALSE)
  ELSE IF Len(schedule.departures) = 0 THEN Returned(FALSE)
  ELSE
    LET first == toMinutes(schedule.departures[1])
        last == toMinutes(schedule.departures[Len(schedule.departures)])
        lastStopOffset ==
          IF Len(schedule.stops) = 0 THEN 0
          ELSE schedule.stops[Len(schedule.stops)].offset
        currentMinutes == Num(now.minutesSinceMidnight)
    IN  IF first.error # "none" THEN Thrown(first.error)
        ELSE IF last.error # "none" THEN Thrown(last.error)
        ELSE IF jsLt(last.value, first.value)
        THEN Returned(jsGe(currentMinutes, first.value)
                      \/ jsLe(currentMinutes, jsAdd(last.value, Num(lastStopOffset))))
        ELSE Returned(jsGe(currentMinutes, jsSub(first.value, Num(5)))
                      /\ jsLe(currentMinutes, jsAdd(last.value, Num(lastStopOffset))))

(***************************************************************************)
(* data/shuttle-schedules: the timetables.                                 *)
(***************************************************************************)
bookstoreApartments ==
  [routeName |-> "Bookstore-Apartments",
   color |-> "e10028",
   schedules |-> <<
     [label |-> "Daytime",
      days |-> "Mon-Fri",
      daysOfWeek |-> <<1, 2, 3, 4, 5>>,
      stops |-> <<
        [name |-> "Colgate Bookstore", offset |-> 0],
        [name |-> "Lebanon & West Pleasant", offset |-> 1],
        [name |-> "SOMAC", offset |-> 2],
        [name |-> "Newell Apartments", offset |-> 6],
        [name |-> "University Court Apts", offset |-> 9],
        [name |-> "Parker Apartments", offset |-> 12],
        [name |-> "Whitnall Field", offset |-> 16],
        [name |-> "Case Library", offset |-> 18],
        [name |-> "Frank Dining Hall", offset |-> 23],
        [name |-> "Gate House", offset |-> 28],
        [name |-> "Kendrick & Broad", offset |-> 31]>>,
      departures |-> <<
        "7:04 AM", "7:44 AM", "8:04 AM", "8:24 AM", "8:44 AM",
        "9:04 AM", "9:24 AM", "9:44 AM", "10:04 AM", "10:24 AM",
        "10:44 AM", "11:24 AM", "12:04 PM", "12:24 PM", "1:04 PM",
        "1:44 PM", "2:04 PM", "2:24 PM", "2:44 PM", "3:04 PM",
        "3:24 PM", "4:04 PM">>],
     [label |-> "Evening",
      days |-> "Mon-Sun",
      daysOfWeek |-> <<0, 1, 2, 3, 4, 5, 6>>,
      stops |-> <<
        [name |-> "Colgate Bookstore", offset |-> 0],
        [name |-> "Lebanon & West Pleasant", offset |-> 1],
        [name |-> "SOMAC", offset |-> 2],
        [name |-> "Newell Apartments", offset |-> 6],
        [name |-> "University Court Apts", offset |-> 9],
        [name |-> "Parker Apartments", offset |-> 12],
        [name |-> "Whitnall Field", offset |-> 16],
        [name |-> "Case Library", offset |-> 18],
        [name |-> "Frank Dining Hall", offset |-> 23],
        [name |-> "Gate House", offset |-> 28],
        [name |-> "Class of 1965 Arena", offset |-> 33],
        [name |-> "Kendrick & Broad", offset |-> 36]>>,
      departures |-> <<
        "4:37 PM", "5:17 PM", "5:57 PM", "6:37 PM", "7:17 PM",
        "7:57 PM", "8:37 PM", "9:17 PM", "9:57 PM", "11:17 PM",
        "11:57 PM", "12:37 AM", "1:17 AM", "1:57 AM", "2:37 AM">>]>>]

townhouse ==
  [routeName |-> "Townhouse",
   color |-> "f0aa00",
   schedules |-> <<
     [label |-> "Daytime",
      days |-> "Mon-Fri",
      daysOfWeek |-> <<1, 2, 3, 4, 5>>,
      stops |-> <<
        [name |-> "Townhouse Apartments", offset |-> 0],
        [name |-> "113 Broad Street", offset |-> 5],
        [name |-> "Bernstein Hall", offset |-> 7],
        [name |-> "Case Library", offset |-> 10],
        [name |-> "Frank Dining Hall", offset |-> 16],
        [name |-> "Gate House", offset |-> 21],
        [name |-> "Class of 1965 Arena", offset |-> 29],
        [name |-> "Student Health Center", offset |-> 32]>>,
      departures |-> <<
        "7:02 AM", "7:38 AM", "7:57 AM", "8:14 AM", "8:33 AM",
        "8:50 AM", "9:09 AM", "9:26 AM", "9:45 AM", "10:02 AM",
        "10:21 AM", "10:38 AM", "10:57 AM", "11:33 AM", "12:26 PM",
        "1:02 PM", "1:21 PM", "1:38 PM", "1:57 PM", "2:14 PM",
        "2:33 PM", "2:50 PM", "3:09 PM", "3:45 PM">>],
     [label |-> "Evening",
      days |-> "Mon-Sun",
      daysOfWeek |-> <<0, 1, 2, 3, 4, 5, 6>>,
      stops |-> <<
        [name |-> "Townhouse Apartments", offset |-> 0],
        [name |-> "113 Broad Street", offset |-> 5],
        [name |-> "Bernstein Hall", offset |-> 7],
        [name |-> "Case Library", offset |-> 10],
        [name |-> "Frank Dining Hall", offset |-> 15],
        [name |-> "Gate House", offset |-> 20],
        [name |-> "Kendrick & Broad", offset |-> 23],
        [name |-> "Colgate Bookstore", offset |-> 27],
        [name |-> "Class of 1965 Arena", offset |-> 34],
        [name |-> "Student Health Center", offset |-> 38]>>,
      departures |-> <<
        "4:17 PM", "4:57 PM", "5:37 PM", "6:17 PM", "6:57 PM",
        "7:37 PM", "8:17 PM", "8:57 PM", "10:17 PM", "10:57 PM",
        "11:37 PM", "12:17 AM", "12:57 AM", "1:37 AM", "2:17 AM">>]>>]

shopping ==
  [routeName |-> "Shopping",
   color |-> "2563eb",
   schedules |-> <<
     [label |-> "Regular",
      days |-> "Mon-Sun",
      daysOfWeek |-> <<0, 1, 2, 3, 4, 5, 6>>,
      stops |-> <<
        [name |-> "Newell Apartments", offset |-> 0],
        [name |-> "University Court Apts", offset |-> 4],
        [name |-> "Parker Apartments", offset |-> 7],
        [name |-> "Townhouse Apartments", offset |-> 12],
        [name |-> "113 Broad Street", offset |-> 17],
        [name |-> "Frank Dining Hall", offset |-> 23],
        [name |-> "Gate House", offset |-> 28],
        [name |-> "Kendrick & Broad", offset |-> 31],
        [name |-> "Village Green", offset |-> 34],
        [name |-> "Parry's", offset |-> 38],
        [name |-> "Price Chopper", offset |-> 43],
        [name |-> "Colgate Bookstore", offset |-> 50]>>,
      departures |-> <<
        "10:02 AM", "10:58 AM", "11:54 AM", "12:50 PM", "1:46 PM",
        "3:38 PM", "4:34 PM", "5:30 PM", "6:26 PM", "7:22 PM">>],
     [label |-> "Break",
      days |-> "Tue & Thu",
      daysOfWeek |-> <<2, 4>>,
      stops |-> <<
        [name |-> "Newell Apartments", offset |-> 0],
        [name |-> "University Court Apts", offset |-> 4],
        [name |-> "Parker Apartments", offset |-> 7],
        [name |-> "Townhouse Apartments", offset |-> 12],
        [name |-> "113 Broad Street", offset |-> 17],
        [name |-> "Frank Dining Hall", offset |-> 23],
        [name |-> "Gate House", offset |-> 28],
        [name |-> "Kendrick & Broad", offset |-> 31],
        [name |-> "Village Green", offset |-> 34],
        [name |-> "Parry's", offset |-> 38],
        [name |-> "Price Chopper", offset |-> 43],
        [name |-> "Colgate Bookstore", offset |-> 50]>>,
      departures |-> <<
        "11:54 AM", "12:50 PM", "1:46 PM", "2:42 PM", "4:34 PM",
        "5:30 PM", "6:26 PM", "7:22 PM">>]>>]

wellness ==
  [routeName |-> "Wellness",
   color |-> "6b3fa0",
   schedules |-> <<
     [label |-> "Pick-up",
      days |-> "Mon-Fri",
      daysOfWeek |-> <<1, 2, 3, 4, 5>>,
      stops |-> <<
        [name |-> "James B. Colgate Hall", offset |-> 0],
        [name |-> "Frank Dining Hall", offset |-> 4],
        [name |-> "Academic Drive", offset |-> 9],
        [name |-> "Huntington Gymnasium", offset |-> 13]>>,
      departures |-> <<
        "11:52 AM">>],
     [label |-> "Return",
      days |-> "Mon-Fri",
      daysOfWeek |-> <<1, 2, 3, 4, 5>>,
      stops |-> <<
        [name |-> "Huntington Gymnasium", offset |-> 0],
        [name |-> "James B. Colgate Hall", offset |-> 4],
        [name |-> "Frank Dining Hall", offset |-> 7],
        [name |-> "Academic Drive", offset |-> 10]>>,
      departures |-> <<
        "1:02 PM">>]>>]

shuttleSchedules == <<bookstoreApartments, townhouse, shopping, wellness>>

(***************************************************************************)
(* lib/transitions: the countdown shown by TimeDisplay.                    *)
(***************************************************************************)
\* getNextTransition with the weekend test of the second branch left out
getNextTransition_noWeekendSkip(et) ==
  LET mins == et.minutesSinceMidnight
      weekend == isWeekend(et.dayOfWeek)
  IN  IF mins >= OVERNIGHT_START /\ mins < BUSINESS_START
      THEN [label |-> IF weekend THEN "All lots open" ELSE "Business hours start",
            minutesUntil |-> minutesUntil(mins, BUSINESS_START)]
      ELSE IF mins >= BUSINESS_START /\ mins < OPEN_START
      THEN [label |-> "Open hours start",
            minutesUntil |-> minutesUntil(mins, OPEN_START)]
      ELSE [label |-> "Overnight restriction",
            minutesUntil |-> minutesUntil(mins, OVERNIGHT_START)]

\* getNextTransition that counts down to open start during the overnight period
getNextTransition_toOpenStart(et) ==
  LET mins == et.minutesSinceMidnight
      weekend == isWeekend(et.dayOfWeek)
  IN  IF mins >= OVERNIGHT_START /\ mins < BUSINESS_START
      THEN [label |-> IF weekend THEN "All lots open" ELSE "Business hours start",
            minutesUntil |-> minutesUntil(mins, OPEN_START)]
      ELSE IF ~weekend /\ mins >= BUSINESS_START /\ mins < OPEN_START
      THEN [label |-> "Open hours start",
            minutesUntil |-> minutesUntil(mins, OPEN_START)]
      ELSE [label |-> "Overnight restriction",
            minutesUntil |-> minutesUntil(mins, OVERNIGHT_START)]

getNextTransition(et) ==
  LET mins == et.minutesSinceMidnight
      weekend == isWeekend(et.dayOfWeek)
  IN  IF mins >= OVERNIGHT_START /\ mins < BUSINESS_START
      THEN [label |-> IF weekend THEN "All lots open" ELSE "Business hours start",
            minutesUntil |-> minutesUntil(mins, BUSINESS_START)]
      ELSE IF ~weekend /\ mins >= BUSINESS_START /\ mins < OPEN_START
      THEN [label |-> "Open hours start",
            minutesUntil |-> minutesUntil(mins, OPEN_START)]
      ELSE [label |-> "Overnight restriction",
            minutesUntil |-> minutesUntil(mins, OVERNIGHT_START)]

(***************************************************************************)
(* lib/shuttle-api.ts: parseShapePoints.  A coordinate is the decimal      *)
(* <<mantissa, scale>> (mantissa / 10^scale), NaN, or undefined.           *)
(***************************************************************************)
Decimal(mantissa, scale) == <<mantissa, scale>>

UndefinedValue == <<"undefined">>

RECURSIVE digitRunEnd(_, _)
digitRunEnd(s, i) ==
  IF i <= Len(s) /\ digitValue(charAt(s, i)) >= 0 THEN digitRunEnd(s, i + 1) ELSE i

RECURSIVE trimEnd(_)
trimEnd(s) ==
  IF Len(s) > 0 /\ charAt(s, Len(s)) = " " THEN trimEnd(SubSeq(s, 1, Len(s) - 1)) ELSE s

trim(s) == trimEnd(SubSeq(s, skipSpaces(s, 1), Len(s)))

RECURSIVE stripTrailingZeros(_)
stripTrailingZeros(s) ==
  IF Len(s) > 0 /\ charAt(s, Len(s)) = "0"
  THEN stripTrailingZeros(SubSeq(s, 1, Len(s) - 1)) ELSE s

\* Number(str) for blank strings and signed decimal literals (the inputs of
\* the model use no exponent, hexadecimal or Infinity form)
jsNumber(str) ==
  LET s == trim(str)
      signed == Len(s) >= 1 /\ charAt(s, 1) \in {"+", "-"}
      start == IF signed THEN 2 ELSE 1
      intEnd == digitRunEnd(s, start)
      hasPoint == intEnd <= Len(s) /\ charAt(s, intEnd) = "."
      fracStart == IF hasPoint THEN intEnd + 1 ELSE intEnd
      fracEnd == IF hasPoint THEN digitRunEnd(s, fracStart) ELSE intEnd
      fracDigits == stripTrailingZeros(SubSeq(s, fracStart, fracEnd - 1))
      magnitude == parseDigits(SubSeq(s, start, intEnd - 1) \o fracDigits, 1, 0)
  IN  IF Len(s) = 0 THEN Decimal(0, 0)
      ELSE IF fracEnd <= Len(s) \/ (intEnd = start /\ fracEnd = fracStart) THEN NaN
      ELSE Decimal(IF signed /\ charAt(s, 1) = "-" THEN 0 - magnitude ELSE magnitude,
                   Len(fracDigits))

\* Array.prototype.filter(Boolean) on strings: drops the empty ones
RECURSIVE filterNonEmpty(_)
filterNonEmpty(list) ==
  IF Len(list) = 0 THEN <<>>
  ELSE (IF Len(Head(list)) > 0 THEN <<Head(list)>> ELSE <<>>)
         \o filterNonEmpty(Tail(list))

parseShapePoints(points) ==
  LET pairs == filterNonEmpty(split(points, ";")) IN
  [i \in 1 .. Len(pairs) |->
     LET numbers == split(pairs[i], ",") IN
     <<jsNumber(numbers[1]),
       IF Len(numbers) >= 2 THEN jsNumber(numbers[2]) ELSE UndefinedValue>>]

(***************************************************************************)
(* lib/shuttle-api.ts: distances.  A latitude or longitude is a fixed-point *)
(* number in units of 1/40000 degree; a distance is <<centimetres>> or      *)
(* Infinity.  On the grid of the model every projection is exact in these   *)
(* units; the square root is rounded down.                                  *)
(***************************************************************************)
\* R * toRad for one unit of latitude, in centimetres (6371000 * pi / 180 / 40000)
CentimetresPerUnit == 278

\* Math.cos of the latitudes of the campus (42.8 degrees), in hundredths
CosHundredths == 73

Infinity == <<1, 0>>

\* d < min, for distances
distanceLt(d, min) == d # Infinity /\ (min = Infinity \/ d[1] < min[1])

RECURSIVE sqrtBetween(_, _, _)
\* the largest root in lo .. hi whose square is at most n
sqrtBetween(n, lo, hi) ==
  IF lo = hi THEN lo
  ELSE LET mid == (lo + hi + 1) \div 2 IN
       IF mid * mid <= n THEN sqrtBetween(n, mid, hi) ELSE sqrtBetween(n, lo, mid - 1)

\* Math.sqrt, rounded down
sqrt(n) == sqrtBetween(n, 0, 46340)

approxDistanceMeters(lat1, lng1, lat2, lng2) ==
  LET dLat == (lat2 - lat1) * 100
      dLng == (lng2 - lng1) * CosHundredths
  IN  Num((CentimetresPerUnit * sqrt(dLat * dLat + dLng * dLng)) \div 100)

\* the projection falls between the ends (t in [0, 1]) and is exact:
\* t * dx = tNum * dx / den
pointToSegmentDistance(p, a, b) ==
  LET dx == b[1] - a[1]
      dy == b[2] - a[2]
  IN  IF dx = 0 /\ dy = 0 THEN approxDistanceMeters(p[1], p[2], a[1], a[2])
      ELSE
        LET den == dx * dx + dy * dy
            num == (p[1] - a[1]) * dx + (p[2] - a[2]) * dy
            tNum == IF num < 0 THEN 0 ELSE IF num > den THEN den ELSE num
            projLat == a[1] + (tNum * dx) \div den
            projLng == a[2] + (tNum * dy) \div den
        IN  approxDistanceMeters(p[1], p[2], projLat, projLng)

RECURSIVE minDistanceFrom(_, _, _, _)
\* the loop of pointToPolylineDistance from segment i on, with min so far
minDistanceFrom(p, line, i, min) ==
  IF i > Len(line) - 1 THEN min
  ELSE LET d == pointToSegmentDistance(p, line[i], line[i + 1]) IN
       minDistanceFrom(p, line, i + 1, IF distanceLt(d, min) THEN d ELSE min)

\* pointToPolylineDistance that keeps the distance to the last segment only
pointToPolylineDistance_lastSegment(p, line) ==
  IF Len(line) < 2 THEN Infinity
  ELSE pointToSegmentDistance(p, line[Len(line) - 1], line[Len(line)])

pointToPolylineDistance(p, line) == minDistanceFrom(p, line, 1, Infinity)

(***************************************************************************)
(* components/ShuttlePanel.tsx                                             *)
(***************************************************************************)
\* schedule route name -> primary API route id
SCHEDULE_TO_API ==
  [routeName \in {"Bookstore-Apartments", "Townhouse", "Shopping", "Wellness"} |->
     CASE routeName = "Bookstore-Apartments" -> 12624
       [] routeName = "Townhouse" -> 12626
       [] routeName = "Shopping" -> 12625
       [] routeName = "Wellness" -> 12627]

\* liveRouteIDs: the API route ids that have at least one vehicle
liveRouteIDs(vehicles) == {vehicles[i].routeID : i \in 1 .. Len(vehicles)}

\* vehicleCountByRoute.get(apiID) ?? 0
vehicleCountByRoute(vehicles, apiID) ==
  Cardinality({i \in 1 .. Len(vehicles) : vehicles[i].routeID = apiID})

\* isLiveSchedule that takes a vehicle on any route for a vehicle of this one
isLiveSchedule_anyVehicle(sched, vehicles) ==
  /\ sched.routeName \in DOMAIN SCHEDULE_TO_API
  /\ Len(vehicles) > 0

\* a schedule is listed under "Running now" when its API route has a vehicle
isLiveSchedule(sched, vehicles) ==
  /\ sched.routeName \in DOMAIN SCHEDULE_TO_API
  /\ SCHEDULE_TO_API[sched.routeName] \in liveRouteIDs(vehicles)

\* RouteCard: the earliest next departure over today's sub-schedules
RECURSIVE routeNextDeparture(_, _, _, _)
routeNextDeparture(schedules, i, eastern, nextDep) ==
  IF i > Len(schedules) THEN Returned(nextDep)
  ELSE IF ~includes(schedules[i].daysOfWeek, eastern.dayOfWeek)
  THEN routeNextDeparture(schedules, i + 1, eastern, nextDep)
  ELSE LET dep == getNextDeparture(schedules[i], eastern) IN
       IF dep.error # "none" THEN Thrown(dep.error)
       ELSE IF dep.value # NULL
               /\ (nextDep = NULL
                   \/ jsLt(toMinutes(dep.value[1]).value, toMinutes(nextDep[1]).value))
       THEN routeNextDeparture(schedules, i + 1, eastern, dep.value)
       ELSE routeNextDeparture(schedules, i + 1, eastern, nextDep)

\* RouteCard that looks at the first sub-schedule only
RouteCard_firstSchedule(route, eastern, vehicleCount) ==
  LET hasVehicles == vehicleCount > 0
      next == routeNextDeparture(SubSeq(route.schedules, 1, 1), 1, eastern, NULL)
  IN  IF next.error # "none" THEN [error |-> next.error]
      ELSE LET nextDep == next.value
               minsUntil == IF nextDep # NULL
                            THEN jsSub(toMinutes(nextDep[1]).value,
                                       Num(eastern.minutesSinceMidnight))
                            ELSE NULL
           IN  [error |-> "none",
                nextDep |-> nextDep,
                minsUntil |-> minsUntil,
                text |-> IF hasVehicles
                         THEN (IF nextDep # NULL THEN "Next" ELSE "Running")
                         ELSE "Not running now"]

\* RouteCard: what the card header shows for a route
RouteCard(route, eastern, vehicleCount) ==
  LET hasVehicles == vehicleCount > 0
      next == routeNextDeparture(route.schedules, 1, eastern, NULL)
  IN  IF next.error # "none" THEN [error |-> next.error]
      ELSE LET nextDep == next.value
               minsUntil == IF nextDep # NULL
                            THEN jsSub(toMinutes(nextDep[1]).value,
                                       Num(eastern.minutesSinceMidnight))
                            ELSE NULL
           IN  [error |-> "none",
                nextDep |-> nextDep,
                minsUntil |-> minsUntil,
                text |-> IF hasVehicles
                         THEN (IF nextDep # NULL THEN "Next" ELSE "Running")
                         ELSE "Not running now"]

(***************************************************************************)
(* components/ParkingMap.tsx: the clock and the statuses derived from it.  *)
(***************************************************************************)
\* statuses = useMemo over parkingLots of getLotStatus(lot, easternTime)
computeStatuses(et) == [lot \in parkingLots |-> getLotStatus(lot, et)]

\* the wall clock `elapsed` minutes later (the next day after 23:59)
advance(et, elapsed) ==
  LET total == et.minutesSinceMidnight + elapsed IN
  [minutesSinceMidnight |-> total % MinutesPerDay,
   dayOfWeek |-> (et.dayOfWeek + (total \div MinutesPerDay)) % 7]

\* UPDATE_INTERVAL is 15 s: between two ticks the minute either stays or
\* moves on by one.
TickElapsed == {0, 1}

(***************************************************************************)
(* components/ParkingMap.tsx and the lot list panel: filters, proximity     *)
(* mode and the list of lots shown.  Distances are fixed-point, as above.   *)
(***************************************************************************)
RECURSIVE toLowerCase(_)
toLowerCase(s) ==
  IF Len(s) = 0 THEN ""
  ELSE LET i == indexOfFrom(UpperChars, charAt(s, 1), 1) IN
       (IF i = 0 THEN charAt(s, 1) ELSE charAt(LowerChars, i))
         \o toLowerCase(SubSeq(s, 2, Len(s)))

\* String.prototype.includes
stringIncludes(s, part) ==
  \E i \in 1 .. (Len(s) - Len(part) + 1) : SubSeq(s, i, i + Len(part) - 1) = part

\* the lot data, in the order of the data file: five lots around the campus
lotTable ==
  <<[id |-> "lot-a", name |-> "Lally Lane", category |-> "employee",
     overnightExempt |-> FALSE, lat |-> 1712720, lng |-> -3021440],
    [id |-> "lot-b", name |-> "Kendrick Avenue", category |-> "student",
     overnightExempt |-> TRUE, lat |-> 1712720, lng |-> -3021360],
    [id |-> "lot-c", name |-> "Gate House Lot", category |-> "student",
     overnightExempt |-> FALSE, lat |-> 1712680, lng |-> -3021400],
    [id |-> "lot-d", name |-> "Wynn Hall Lot", category |-> "employee",
     overnightExempt |-> TRUE, lat |-> 1712640, lng |-> -3021400],
    [id |-> "lot-e", name |-> "Reid Loading Dock", category |-> "restricted",
     overnightExempt |-> FALSE, lat |-> 1712640, lng |-> -3021440]>>

\* statuses.get(lot.id)
statusOf(lotStatuses, lot) ==
  lotStatuses[[category |-> lot.category, overnightExempt |-> lot.overnightExempt]]

\* the haversine distance; at campus scale sin x = x and atan2(sqrt a,
\* sqrt(1 - a)) = sqrt a within the resolution of the model
distanceKm(lat1, lng1, lat2, lng2) ==
  LET dLat == (lat2 - lat1) * 100
      dLng == (lng2 - lng1) * CosHundredths
  IN  Num((CentimetresPerUnit * sqrt(dLat * dLat + dLng * dLng)) \div 100)

\* lotDistances: lot id -> distance, empty without a user location
lotDistancesOf(location) ==
  IF location = NULL THEN <<>>
  ELSE [i \in 1 .. Len(lotTable) |->
          distanceKm(location[1], location[2], lotTable[i].lat, lotTable[i].lng)]

RECURSIVE indexOfLot(_, _)
indexOfLot(lot, i) ==
  IF i > Len(lotTable) THEN 0
  ELSE IF lotTable[i].id = lot.id THEN i ELSE indexOfLot(lot, i + 1)

\* lotDistances.get(lot.id) ?? Infinity
distanceOrInfinity(distances, lot) ==
  IF indexOfLot(lot, 1) \in DOMAIN distances
  THEN distances[indexOfLot(lot, 1)] ELSE Infinity

RECURSIVE insertSorted(_, _, _)
\* x placed after every element of the sorted list whose key is not above its own
insertSorted(list, x, keys) ==
  IF Len(list) = 0 THEN <<x>>
  ELSE IF distanceLt(keys[x.id], keys[list[1].id]) THEN <<x>> \o list
  ELSE <<list[1]>> \o insertSorted(Tail(list), x, keys)

RECURSIVE stableSort(_, _)
\* Array.prototype.sort with the comparator keys[a] - keys[b]: stable
stableSort(list, keys) ==
  IF Len(list) = 0 THEN <<>>
  ELSE insertSorted(stableSort(SubSeq(list, 1, Len(list) - 1), keys),
                    list[Len(list)], keys)

lotIds == {lotTable[i].id : i \in 1 .. Len(lotTable)}

lotById(id) == CHOOSE lot \in {lotTable[i] : i \in 1 .. Len(lotTable)} : lot.id = id

matchesCategory(filters, lot) ==
  \/ ("student" \in filters /\ lot.category = "student")
  \/ ("employee" \in filters /\ lot.category = "employee")
  \/ ("overnightExempt" \in filters /\ lot.overnightExempt)

filteredLotsOf(lotStatuses, searchText, statusSet, categorySet, nearMe, location) ==
  LET keep(lot) ==
        /\ (searchText # "" =>
              stringIncludes(toLowerCase(lot.name), toLowerCase(searchText)))
        /\ (statusSet # {} => statusOf(lotStatuses, lot).color \in statusSet)
        /\ (categorySet # {} => matchesCategory(categorySet, lot))
        /\ (nearMe => statusOf(lotStatuses, lot).color \in {"green", "yellow"})
      result == SelectSeq(lotTable, keep)
      distances == lotDistancesOf(location)
      keys == [id \in lotIds |-> distanceOrInfinity(distances, lotById(id))]
  IN  IF nearMe /\ location # NULL THEN stableSort(result, keys) ELSE result

colorOrder == <<"green", "yellow", "orange", "red">>

colorIndex(color) == CHOOSE i \in 1 .. Len(colorOrder) : colorOrder[i] = color

\* LotListPanel that sorts by colour whatever skipSort says
sortedLots_always(lots, lotStatuses, skipSort) ==
  stableSort(lots, [id \in lotIds |-> Num(colorIndex(statusOf(lotStatuses, lotById(id)).color))])

\* LotListPanel: the rows of the list
sortedLots(lots, lotStatuses, skipSort) ==
  IF skipSort THEN lots
  ELSE stableSort(lots, [id \in lotIds |-> Num(colorIndex(statusOf(lotStatuses, lotById(id)).color))])

(***************************************************************************)
(* Inputs of the schedule, panel and shape models.                         *)
(***************************************************************************)
\* longest departure list of a generated sub-schedule
MaxDepartures == 2

\* most vehicles in a snapshot of the vehicle feed
MaxVehicles == 1

\* most pairs in a generated encoded-points string
MaxPairs == 2

\* how far outside [0,1440) a descriptor handed to the engine may lie
MinuteMargin == 200

\* how far outside 0..6 its day of week may lie
DayMargin == 1

MaxPolyline == 3

\* two departure times of the timetables: after midnight and late evening
DeparturePool == {"12:37 AM", "11:57 PM"}

DepartureLists == UNION {[1 .. n -> DeparturePool] : n \in 0 .. MaxDepartures}

\* generated Mon-Fri sub-schedules without stops, each shown as a
\* one-timetable route
GeneratedRoutes ==
  {[routeName |-> "Wellness",
    color |-> "6b3fa0",
    schedules |-> <<[label |-> "Generated",
                     days |-> "Mon-Fri",
                     daysOfWeek |-> <<1, 2, 3, 4, 5>>,
                     stops |-> <<>>,
                     departures |-> departures]>>] :
     departures \in DepartureLists}

TimetableRoutes == {shuttleSchedules[i] : i \in 1 .. Len(shuttleSchedules)}

\* route ids reported by the vehicle feed: two routes and "no route"
FeedRouteIDs == {12624, 12627, -1}

\* the routes of the transit API
ApiRouteIDs == FeedRouteIDs \ {-1}

VehicleSnapshots ==
  UNION {[1 .. n -> [routeID : FeedRouteIDs]] : n \in 0 .. MaxVehicles}

\* lat,lng pairs as they may arrive in an encoded-points string
PairPool ==
  {"42.8172,-75.5385", "42.81,-75.50", "abc,-75.5", "42.81,", "42.81",
   "", "42.8l,x"}

RECURSIVE joinPairs(_)
joinPairs(pairs) ==
  IF Len(pairs) = 0 THEN ""
  ELSE IF Len(pairs) = 1 THEN pairs[1]
  ELSE pairs[1] \o ";" \o joinPairs(Tail(pairs))

\* ";"-delimited pair lists, with and without the trailing ";"
EncodedPoints ==
  LET lists == UNION {[1 .. n -> PairPool] : n \in 0 .. MaxPairs} IN
  {joinPairs(l) : l \in lists} \cup {joinPairs(l) \o ";" : l \in lists}

\* descriptors inside and outside the documented domain
\* positions on the campus, 0.001 degree apart, in units of 1/40000 degree
GridLatitudes == {1712640, 1712680, 1712720}

GridLongitudes == {-3021440, -3021400, -3021360}

GridPoints == GridLatitudes \X GridLongitudes

Polylines == UNION {[1 .. n -> GridPoints] : n \in 0 .. MaxPolyline}

\* instants at which the lots show every colour, or green lots only
SampleTimes ==
  {[minutesSinceMidnight |-> 400, dayOfWeek |-> 2],
   [minutesSinceMidnight |-> 970, dayOfWeek |-> 2],
   [minutesSinceMidnight |-> 165, dayOfWeek |-> 2],
   [minutesSinceMidnight |-> 700, dayOfWeek |-> 0]}

\* positions reported by the browser: two corners of the campus grid
UserPositions == {<<1712640, -3021440>>, <<1712720, -3021400>>}

\* texts typed in the search box
SearchInputs == {"", "LOT"}

CategoryFilterValues == {"student", "employee", "overnightExempt"}

AnyDescriptor ==
  [minutesSinceMidnight : (0 - MinuteMargin) .. (MinutesPerDay - 1 + MinuteMargin),
   dayOfWeek : (0 - DayMargin) .. (6 + DayMargin)]

(***************************************************************************)
(* The state machine.  Each specification drives one part of the program   *)
(* and leaves the other parts in their idle state.                         *)
(***************************************************************************)
Midnight == [minutesSinceMidnight |-> 0, dayOfWeek |-> 0]

Pending == Thrown("pending")

LotsIdle ==
  /\ easternTime = Midnight
  /\ statuses = computeStatuses(easternTime)

ParseIdle ==
  /\ timeString = "12:00 AM"
  /\ parsedMinutes = Pending

ShuttleIdle ==
  /\ cardRoute = wellness
  /\ shuttleTime = Midnight
  /\ activeVehicles = <<>>

ShapeIdle ==
  /\ encoded = ""
  /\ shapePoints = <<>>

GeoIdle ==
  /\ point = <<0, 0>>
  /\ polyline = <<>>
  /\ distance = Pending

\* ParkingMap's useState initial values; no position request made
MapIdle ==
  /\ search = ""
  /\ statusFilters = {}
  /\ categoryFilters = {}
  /\ selectedLot = NULL
  /\ userLocation = NULL
  /\ nearMeActive = FALSE
  /\ locatingUser = FALSE
  /\ geolocation = "idle"

\* no routes fetched, nothing checked, no vehicle snapshot seen
ToggleIdle ==
  /\ apiRoutes = {}
  /\ visibleRouteIDs = {}
  /\ prevLive = {}
  /\ baselineSet = FALSE
  /\ processedVehicles = <<>>
  /\ shuttleMode = TRUE

Init ==
  /\ easternTime \in EasternTime
  /\ statuses = computeStatuses(easternTime)
  /\ ParseIdle /\ ShuttleIdle /\ ShapeIdle /\ GeoIdle /\ MapIdle /\ ToggleIdle

\* setInterval(() => setNow(new Date())): easternTime and statuses are
\* recomputed from the new instant.
Tick ==
  \E elapsed \in TickElapsed :
    /\ easternTime' = advance(easternTime, elapsed)
    /\ statuses' = computeStatuses(easternTime')
    /\ UNCHANGED <<timeString, parsedMinutes, cardRoute, shuttleTime, activeVehicles,
                   encoded, shapePoints, geoVars, filterVars, nearMeVars, toggleVars>>

Next == Tick

Spec == Init /\ [][Next]_vars

\* the engine handed any descriptor, inside or outside its documented domain
InitDomain ==
  /\ easternTime \in AnyDescriptor
  /\ statuses = computeStatuses(easternTime)
  /\ ParseIdle /\ ShuttleIdle /\ ShapeIdle /\ GeoIdle /\ MapIdle /\ ToggleIdle

SpecDomain == InitDomain /\ [][Next]_vars

\* a departure string handed to toMinutes
InitParse ==
  /\ timeString \in TimeStrings
  /\ parsedMinutes = Pending
  /\ LotsIdle /\ ShuttleIdle /\ ShapeIdle /\ GeoIdle /\ MapIdle /\ ToggleIdle

ParseDeparture ==
  /\ parsedMinutes = Pending
  /\ parsedMinutes' = toMinutes(timeString)
  /\ UNCHANGED <<easternTime, statuses, timeString, cardRoute, shuttleTime,
                 activeVehicles, encoded, shapePoints, geoVars, filterVars, nearMeVars, toggleVars>>

NextParse == ParseDeparture

SpecParse == InitParse /\ [][NextParse]_vars

\* ShuttlePanel: setInterval(() => setNow(new Date()), 15_000)
ShuttleTick ==
  \E elapsed \in TickElapsed :
    /\ shuttleTime' = advance(shuttleTime, elapsed)
    /\ UNCHANGED <<easternTime, statuses, timeString, parsedMinutes, cardRoute,
                   activeVehicles, encoded, shapePoints, geoVars, filterVars, nearMeVars, toggleVars>>

\* ShuttlePanel: the vehicle feed is polled and vehicles without a route dropped
VehiclesLoaded ==
  \E v \in VehicleSnapshots :
    /\ activeVehicles' = SelectSeq(v, LAMBDA x : x.routeID # -1)
    /\ UNCHANGED <<easternTime, statuses, timeString, parsedMinutes, cardRoute,
                   shuttleTime, encoded, shapePoints, geoVars, filterVars, nearMeVars, toggleVars>>

\* a route card over the timetables and the generated sub-schedules
InitSchedule ==
  /\ cardRoute \in TimetableRoutes \cup GeneratedRoutes
  /\ shuttleTime \in EasternTime
  /\ activeVehicles = <<>>
  /\ LotsIdle /\ ParseIdle /\ ShapeIdle /\ GeoIdle /\ MapIdle /\ ToggleIdle

NextSchedule == ShuttleTick

SpecSchedule == InitSchedule /\ [][NextSchedule]_vars

\* the panel over the timetables, with the vehicle feed
InitPanel ==
  /\ cardRoute \in TimetableRoutes
  /\ shuttleTime \in EasternTime
  /\ activeVehicles = <<>>
  /\ LotsIdle /\ ParseIdle /\ ShapeIdle /\ GeoIdle /\ MapIdle /\ ToggleIdle

NextPanel == ShuttleTick \/ VehiclesLoaded

SpecPanel == InitPanel /\ [][NextPanel]_vars

\* ShuttleLayer: a fetched shape, decoded into shapeMap
InitShape ==
  /\ encoded \in EncodedPoints
  /\ shapePoints = <<>>
  /\ LotsIdle /\ ParseIdle /\ ShuttleIdle /\ GeoIdle /\ MapIdle /\ ToggleIdle

DecodeShape ==
  /\ shapePoints' = parseShapePoints(encoded)
  /\ UNCHANGED <<easternTime, statuses, timeString, parsedMinutes, cardRoute,
                 shuttleTime, activeVehicles, encoded, geoVars, filterVars, nearMeVars, toggleVars>>

NextShape == DecodeShape

SpecShape == InitShape /\ [][NextShape]_vars

\* a position measured against a route shape
InitGeo ==
  /\ point \in GridPoints
  /\ polyline \in Polylines
  /\ distance = Pending
  /\ LotsIdle /\ ParseIdle /\ ShuttleIdle /\ ShapeIdle /\ MapIdle /\ ToggleIdle

MeasureDistance ==
  /\ distance = Pending
  /\ distance' = Returned(pointToPolylineDistance(point, polyline))
  /\ UNCHANGED <<easternTime, statuses, timeString, parsedMinutes, cardRoute,
                 shuttleTime, activeVehicles, encoded, shapePoints, point, polyline, filterVars, nearMeVars, toggleVars>>

NextGeo == MeasureDistance

SpecGeo == InitGeo /\ [][NextGeo]_vars

\* the lot list (shown in place of the shuttle panel) with filters and
\* proximity mode, at sampled instants
InitNearMe ==
  /\ easternTime \in SampleTimes
  /\ statuses = computeStatuses(easternTime)
  /\ MapIdle
  /\ apiRoutes = {} /\ visibleRouteIDs = {} /\ prevLive = {}
  /\ baselineSet = FALSE /\ processedVehicles = <<>>
  /\ shuttleMode = FALSE
  /\ ParseIdle /\ ShuttleIdle /\ ShapeIdle /\ GeoIdle

restOfApp ==
  <<easternTime, statuses, timeString, parsedMinutes, cardRoute, shuttleTime,
    activeVehicles, encoded, shapePoints, geoVars, toggleVars>>

\* handleNearMe that switches proximity mode on without a location
HandleNearMe_noLocation ==
  /\ ~locatingUser
  /\ nearMeActive' = ~nearMeActive
  /\ UNCHANGED <<restOfApp, filterVars, userLocation, locatingUser, geolocation>>

\* the Near Me button (disabled while locating): handleNearMe
HandleNearMe ==
  /\ ~locatingUser
  /\ IF nearMeActive
     THEN /\ nearMeActive' = FALSE
          /\ UNCHANGED <<userLocation, locatingUser, geolocation>>
     ELSE IF userLocation # NULL
     THEN /\ nearMeActive' = TRUE
          /\ UNCHANGED <<userLocation, locatingUser, geolocation>>
     ELSE /\ locatingUser' = TRUE
          /\ geolocation' = "pending"
          /\ UNCHANGED <<userLocation, nearMeActive>>
  /\ UNCHANGED <<restOfApp, filterVars>>

\* getCurrentPosition's success callback
GeolocationSuccess ==
  \E position \in UserPositions :
    /\ geolocation = "pending"
    /\ userLocation' = position
    /\ nearMeActive' = TRUE
    /\ locatingUser' = FALSE
    /\ geolocation' = "resolved"
    /\ UNCHANGED <<restOfApp, filterVars>>

\* getCurrentPosition's error callback: denied, unavailable or timed out
GeolocationError ==
  /\ geolocation = "pending"
  /\ locatingUser' = FALSE
  /\ geolocation' = "denied"
  /\ UNCHANGED <<restOfApp, filterVars, userLocation, nearMeActive>>

SetSearch ==
  \E value \in SearchInputs :
    /\ search' = value
    /\ UNCHANGED <<restOfApp, statusFilters, categoryFilters, selectedLot, nearMeVars>>

toggleStatus ==
  \E color \in StatusColor :
    /\ statusFilters' =
         IF color \in statusFilters THEN statusFilters \ {color}
         ELSE statusFilters \cup {color}
    /\ UNCHANGED <<restOfApp, search, categoryFilters, selectedLot, nearMeVars>>

toggleCategory ==
  \E value \in CategoryFilterValues :
    /\ categoryFilters' =
         IF value \in categoryFilters THEN categoryFilters \ {value}
         ELSE categoryFilters \cup {value}
    /\ UNCHANGED <<restOfApp, search, statusFilters, selectedLot, nearMeVars>>

handleLotClick ==
  \E i \in 1 .. Len(lotTable) :
    /\ selectedLot' = Found(lotTable[i].id)
    /\ UNCHANGED <<restOfApp, search, statusFilters, categoryFilters, nearMeVars>>

NextNearMe ==
  \/ HandleNearMe
  \/ GeolocationSuccess
  \/ GeolocationError
  \/ SetSearch
  \/ toggleStatus
  \/ toggleCategory
  \/ handleLotClick

SpecNearMe == InitNearMe /\ [][NextNearMe]_vars

\* the lots ParkingMap hands to the list panel
filteredLots ==
  filteredLotsOf(statuses, search, statusFilters, categoryFilters, nearMeActive,
                 userLocation)

\* the rows the list panel shows
shownLots == sortedLots(filteredLots, statuses, nearMeActive /\ userLocation # NULL)

\* the shuttle panel's route checkboxes following the vehicle feed
InitToggle ==
  /\ LotsIdle /\ ParseIdle /\ ShuttleIdle /\ ShapeIdle /\ GeoIdle /\ MapIdle /\ ToggleIdle

otherThanToggle ==
  <<easternTime, statuses, timeString, parsedMinutes, cardRoute, shuttleTime,
    encoded, shapePoints, geoVars, filterVars, nearMeVars>>

\* the effect on [activeVehicles] has run for the snapshot held
effectDone == processedVehicles = activeVehicles

\* fetchRoutes().then: the routes arrive and the saved or default checks are set
RoutesFetched ==
  \E saved \in SUBSET ApiRouteIDs :
    /\ apiRoutes = {}
    /\ apiRoutes' = ApiRouteIDs
    /\ visibleRouteIDs' = IF saved # {} THEN saved ELSE ApiRouteIDs
    /\ UNCHANGED <<otherThanToggle, activeVehicles, prevLive, baselineSet,
                   processedVehicles, shuttleMode>>

\* a route checkbox of the panel: toggleRouteVisibility
toggleRouteVisibility ==
  \E routeID \in apiRoutes :
    /\ visibleRouteIDs' =
         IF routeID \in visibleRouteIDs THEN visibleRouteIDs \ {routeID}
         ELSE visibleRouteIDs \cup {routeID}
    /\ UNCHANGED <<otherThanToggle, activeVehicles, apiRoutes, prevLive, baselineSet,
                   processedVehicles, shuttleMode>>

\* the auto-toggle effect, run after the render that follows a new snapshot
AutoToggle ==
  /\ ~effectDone
  /\ processedVehicles' = activeVehicles
  /\ LET currentLive == liveRouteIDs(activeVehicles)
         newlyActive == currentLive \ prevLive
         newlyInactive == prevLive \ currentLive
     IN  IF Len(activeVehicles) = 0
         THEN UNCHANGED <<visibleRouteIDs, prevLive, baselineSet>>
         ELSE IF ~baselineSet
         THEN /\ prevLive' = currentLive
              /\ baselineSet' = TRUE
              /\ UNCHANGED visibleRouteIDs
         ELSE /\ visibleRouteIDs' =
                   (visibleRouteIDs \cup (newlyActive \ visibleRouteIDs))
                     \ (newlyInactive \cap visibleRouteIDs)
              /\ prevLive' = currentLive
              /\ UNCHANGED baselineSet
  /\ UNCHANGED <<otherThanToggle, activeVehicles, apiRoutes, shuttleMode>>

\* the panel's back button: the lot list replaces the shuttle panel, whose
\* state and refs are dropped
onBack ==
  /\ shuttleMode
  /\ shuttleMode' = FALSE
  /\ activeVehicles' = <<>>
  /\ prevLive' = {}
  /\ baselineSet' = FALSE
  /\ processedVehicles' = <<>>
  /\ UNCHANGED <<otherThanToggle, apiRoutes, visibleRouteIDs>>

\* the lot list's shuttle button: a fresh shuttle panel is mounted
onShowShuttles ==
  /\ ~shuttleMode
  /\ shuttleMode' = TRUE
  /\ UNCHANGED <<otherThanToggle, activeVehicles, apiRoutes, visibleRouteIDs,
                 prevLive, baselineSet, processedVehicles>>

\* effects are flushed before the next poll result or click is handled
NextToggle ==
  \/ (shuttleMode /\ effectDone /\ VehiclesLoaded)
  \/ AutoToggle
  \/ (effectDone /\ RoutesFetched)
  \/ (shuttleMode /\ effectDone /\ toggleRouteVisibility)
  \/ (effectDone /\ onBack)
  \/ onShowShuttles

SpecToggle == InitToggle /\ [][NextToggle]_vars

(***************************************************************************)
(* Properties of the period classifier and the lot status engine.          *)
(***************************************************************************)
mins == easternTime.minutesSinceMidnight

weekend == isWeekend(easternTime.dayOfWeek)

Lot(category, overnightExempt) ==
  [category |-> category, overnightExempt |-> overnightExempt]

colorOf(category, overnightExempt) == statuses[Lot(category, overnightExempt)].color

\* the cyclic minute distance of spec section 4.2, written out on its own
CyclicDistance(current, target) == ((target - current - 1) % 1440) + 1

InOvernight == mins >= 180 /\ mins < 420

InBusiness == mins >= 420 /\ mins < 990

InOpen == (mins >= 990 /\ mins < 1440) \/ (mins >= 0 /\ mins < 180)

\* C1: at every minute of every day and for both values of overnightExempt,
\* a lot of category restricted has the color red.
C1_RestrictedAlwaysRed ==
  \A lot \in parkingLots :
    lot.category = "restricted" => statuses[lot].color = "red"

\* a weekend afternoon, when every other lot is green, with the restricted
\* lots red
C1_Witness ==
  /\ weekend /\ mins = 600
  /\ colorOf("student", FALSE) = "green"
  /\ colorOf("employee", TRUE) = "green"
  /\ colorOf("restricted", TRUE) = "red"
  /\ colorOf("restricted", FALSE) = "red"

\* C2: the period classifier returns exactly one period for every minute of
\* the day: overnight iff the minute is in [180,420), business iff it is in
\* [420,990), open otherwise; the day of week plays no part.
C2_PeriodTable ==
  LET period == getCurrentPeriod(mins) IN
  /\ period \in {"overnight", "business", "open"}
  /\ (period = "overnight" <=> InOvernight)
  /\ (period = "business" <=> InBusiness)
  /\ (period = "open" <=> InOpen)

\* the last overnight minute of a weekend day
C2_Witness ==
  /\ weekend /\ mins = 419
  /\ getCurrentPeriod(mins) = "overnight"
  /\ getCurrentPeriod(mins + 1) = "business"

\* C3 as stated: on a weekday at 02:05 (minute 125) a non-exempt employee lot
\* is red with the overnight-restriction reason.
C3_ScenarioA_AsStated ==
  (~weekend /\ mins = 125) =>
    /\ colorOf("employee", FALSE) = "red"
    /\ statuses[Lot("employee", FALSE)].reason
         = Reason("Overnight restriction (3-7 AM) - no parking")

\* C3 amended: on a weekday at 02:05 (minute 125), which lies in the open
\* period and 55 minutes before the overnight restriction, a non-exempt
\* employee lot is green with the open-hours reason.
C3_ScenarioA_OpenHours ==
  (~weekend /\ mins = 125) =>
    statuses[Lot("employee", FALSE)]
      = LotStatus("green", "Available", Reason("Open hours - all lots available"))

C3_Witness ==
  /\ ~weekend /\ mins = 125
  /\ colorOf("employee", FALSE) = "green"

\* C4 as stated: a weekday, overnight-exempt employee lot is green one minute
\* before business start, orange 31 minutes before and green 40 minutes before.
C4_Transition_AsStated ==
  ~weekend =>
    /\ (mins = BUSINESS_START - 1 => colorOf("employee", TRUE) = "green")
    /\ (mins = BUSINESS_START - 31 => colorOf("employee", TRUE) = "orange")
    /\ (mins = BUSINESS_START - 40 => colorOf("employee", TRUE) = "green")

\* C4 amended: a weekday, overnight-exempt employee lot is orange one minute
\* before business start, green 31 minutes before and green 40 minutes before.
C4_Transition ==
  ~weekend =>
    /\ (mins = BUSINESS_START - 1 => colorOf("employee", TRUE) = "orange")
    /\ (mins = BUSINESS_START - 31 => colorOf("employee", TRUE) = "green")
    /\ (mins = BUSINESS_START - 40 => colorOf("employee", TRUE) = "green")

C4_Witness ==
  /\ ~weekend /\ mins = BUSINESS_START - 31
  /\ colorOf("employee", TRUE) = "green"

\* C5: in the overnight period an overnight-exempt, non-restricted lot is
\* green, except that it is orange exactly when it is an employee lot, the
\* day is a weekday and business start is at most 30 minutes away.
C5_OvernightExempt ==
  InOvernight =>
    \A category \in {"student", "employee"} :
      colorOf(category, TRUE) =
        IF category = "employee" /\ ~weekend /\ CyclicDistance(mins, 420) <= 30
        THEN "orange" ELSE "green"

\* an exempt employee lot turning orange on a weekday while the exempt
\* student lot stays green
C5_Witness ==
  /\ InOvernight /\ ~weekend /\ mins = 390
  /\ colorOf("employee", TRUE) = "orange"
  /\ colorOf("student", TRUE) = "green"

\* C6: in the overnight period a non-exempt, non-restricted lot is yellow
\* exactly when business start is at most 30 minutes away and the lot is a
\* student lot or the day is a weekend, and red in every other case; on a
\* weekday at minute 395 the non-exempt student lot is yellow.
C6_OvernightRestricted ==
  /\ InOvernight =>
       \A category \in {"student", "employee"} :
         colorOf(category, FALSE) =
           IF CyclicDistance(mins, 420) <= 30 /\ (category = "student" \/ weekend)
           THEN "yellow" ELSE "red"
  /\ (~weekend /\ mins = 395) => colorOf("student", FALSE) = "yellow"

\* scenario B, with the employee lot still red inside the window
C6_Witness ==
  /\ ~weekend /\ mins = 395
  /\ colorOf("student", FALSE) = "yellow"
  /\ colorOf("employee", FALSE) = "red"

\* C7: on a weekend outside the overnight period a non-restricted lot is
\* orange iff the overnight start is at most 30 minutes away, the lot is not
\* overnight-exempt and the minute is at or after business start; otherwise it
\* is green; the category does not affect the result.
C7_Weekend ==
  (weekend /\ ~InOvernight) =>
    \A category \in {"student", "employee"}, exempt \in BOOLEAN :
      /\ colorOf(category, exempt) =
           IF CyclicDistance(mins, 180) <= 30 /\ ~exempt /\ mins >= 420
           THEN "orange" ELSE "green"
      /\ colorOf(category, exempt) = colorOf("student", exempt)

\* a weekend night ten minutes before the overnight restriction
C7_Witness ==
  /\ weekend /\ mins = 170
  /\ colorOf("employee", FALSE) = "green"
  /\ colorOf("student", FALSE) = "green"

\* C8: on a weekday in the business period a student lot is green; an
\* employee lot is yellow exactly in [960,990) and red otherwise;
\* overnightExempt does not affect the result.
C8_WeekdayBusiness ==
  (~weekend /\ InBusiness) =>
    \A exempt \in BOOLEAN :
      /\ colorOf("student", exempt) = "green"
      /\ colorOf("employee", exempt) =
           IF mins >= 960 /\ mins < 990 THEN "yellow" ELSE "red"
      /\ ((CyclicDistance(mins, 990) <= 30) <=> (mins >= 960 /\ mins < 990))

\* the first minute of the 30-minute window before open hours
C8_Witness ==
  /\ ~weekend /\ mins = 960
  /\ colorOf("employee", FALSE) = "yellow"
  /\ colorOf("employee", TRUE) = "yellow"
  /\ colorOf("student", FALSE) = "green"

\* C9: on a weekday in the open period a student lot is green; an employee
\* lot is orange exactly when it is not overnight-exempt and the overnight
\* start is at most 30 minutes away, and green otherwise; no non-restricted
\* lot is red or yellow.
C9_WeekdayOpen ==
  (~weekend /\ InOpen) =>
    \A exempt \in BOOLEAN :
      /\ colorOf("student", exempt) = "green"
      /\ colorOf("employee", exempt) =
           IF ~exempt /\ CyclicDistance(mins, 180) <= 30 THEN "orange" ELSE "green"
      /\ \A category \in {"student", "employee"} :
           colorOf(category, exempt) \notin {"red", "yellow"}

\* a weekday night twenty minutes before the overnight restriction
C9_Witness ==
  /\ ~weekend /\ mins = 160
  /\ colorOf("employee", FALSE) = "orange"
  /\ colorOf("employee", TRUE) = "green"
  /\ colorOf("student", FALSE) = "green"

(***************************************************************************)
(* Properties of the countdown (lib/transitions).                          *)
(***************************************************************************)
Boundaries == {OVERNIGHT_START, BUSINESS_START, OPEN_START}

\* the boundary with the smallest cyclic distance from minute m
NearestBoundary(m) ==
  CHOOSE b \in Boundaries :
    \A c \in Boundaries : CyclicDistance(m, b) <= CyclicDistance(m, c)

\* the boundary a countdown label announces
BoundaryOf(label) ==
  CASE label \in {"All lots open", "Business hours start"} -> BUSINESS_START
    [] label = "Open hours start" -> OPEN_START
    [] label = "Overnight restriction" -> OVERNIGHT_START

nextTransition == getNextTransition(easternTime)

\* C11 as stated: at every minute of every day getNextTransition announces the
\* boundary of [overnightStart, businessStart, openStart] with the smallest
\* cyclic distance from the current minute, and minutesUntil is that distance.
C11_NearestBoundary_AsStated ==
  /\ BoundaryOf(nextTransition.label) = NearestBoundary(mins)
  /\ nextTransition.minutesUntil = CyclicDistance(mins, NearestBoundary(mins))

\* C11: getNextTransition announces the nearest upcoming boundary, except on a
\* weekend between businessStart and openStart, where openStart is passed over
\* and overnightStart is announced; minutesUntil is the cyclic distance from
\* the current minute to the announced boundary.
C11_NearestBoundary ==
  LET target == IF weekend /\ InBusiness THEN OVERNIGHT_START
                ELSE NearestBoundary(mins)
  IN  /\ BoundaryOf(nextTransition.label) = target
      /\ nextTransition.minutesUntil = CyclicDistance(mins, target)

C11_Witness ==
  /\ weekend /\ mins = 600
  /\ NearestBoundary(mins) = OPEN_START
  /\ nextTransition.label = "Overnight restriction"
  /\ nextTransition.minutesUntil = 1020

(***************************************************************************)
(* Properties of the departure-time parser (data/shuttle-schedules).       *)
(***************************************************************************)
Meridiems == {"AM", "PM"}

\* the 12-hour string "H:MM AM|PM" of each clock reading
ClockString ==
  [H \in 1 .. 12, MM \in 0 .. 59, meridiem \in Meridiems |->
     numberToString(H) \o ":" \o padStart2(numberToString(MM)) \o " " \o meridiem]

\* the 24-hour hour of a 12-hour reading
Hour24(H, meridiem) ==
  IF meridiem = "AM" THEN (IF H = 12 THEN 0 ELSE H)
  ELSE (IF H = 12 THEN 12 ELSE H + 12)

parsed == parsedMinutes # Pending

\* C15: for every string "H:MM AM|PM" with H in 1..12 and MM in 00..59,
\* parseTime gives hour 0 for 12 AM, 12 for 12 PM, h+12 for another PM hour
\* and h for another AM hour, toMinutes gives hour*60+MM, a value in
\* [0,1440), and no other (H, MM, meridiem) gives the same minute value.
C15_ParseTime ==
  parsed =>
    \A H \in 1 .. 12, MM \in 0 .. 59, meridiem \in Meridiems :
      timeString = ClockString[H, MM, meridiem] =>
        /\ parseTime(timeString) =
             Returned([hour |-> Num(Hour24(H, meridiem)), minute |-> Num(MM)])
        /\ parsedMinutes = Returned(Num(Hour24(H, meridiem) * 60 + MM))
        /\ Hour24(H, meridiem) * 60 + MM \in 0 .. (MinutesPerDay - 1)
        /\ \A H2 \in 1 .. 12, MM2 \in 0 .. 59, meridiem2 \in Meridiems :
             toMinutes(ClockString[H2, MM2, meridiem2]) = parsedMinutes
               => <<H2, MM2, meridiem2>> = <<H, MM, meridiem>>

C15_Witness ==
  /\ timeString = ClockString[12, 37, "AM"]
  /\ parsedMinutes = Returned(Num(37))

\* C18: a departure string that is not a 12-hour "H:MM AM|PM" value is
\* rejected by the parser with an error; toMinutes never returns a value
\* (a minute of day or a non-number) for it.
C18_MalformedRejected ==
  (parsed /\ timeString \in MalformedTimes) => parsedMinutes.error # "none"

(***************************************************************************)
(* Properties of the schedule helpers and the route card.                  *)
(***************************************************************************)
\* the sub-schedules of the route on the card
Subs == {cardRoute.schedules[i] : i \in 1 .. Len(cardRoute.schedules)}

\* the minute of day of a departure string
MinuteOf(dep) == toMinutes(dep).value[1]

\* departures strictly increasing in minute of day (no wraparound)
Increasing(departures) ==
  \A i \in 1 .. (Len(departures) - 1) :
    MinuteOf(departures[i]) < MinuteOf(departures[i + 1])

\* result is the listed departure with the smallest minute after m, or NULL
\* when no listed departure is after m
IsSmallestAfter(result, departures, m) ==
  IF \E i \in 1 .. Len(departures) : MinuteOf(departures[i]) > m
  THEN /\ result # NULL
       /\ \E i \in 1 .. Len(departures) : departures[i] = result[1]
       /\ MinuteOf(result[1]) > m
       /\ \A j \in 1 .. Len(departures) :
            MinuteOf(departures[j]) > m => MinuteOf(result[1]) <= MinuteOf(departures[j])
  ELSE result = NULL

\* C12: for a sub-schedule whose departures increase in minute of day and any
\* minute m, getNextDeparture returns the listed departure with the smallest
\* minute strictly greater than m, or none at or past the last departure;
\* with departures ["11:52 AM"] it returns "11:52 AM" at minute 700 and none
\* at minute 715.
C12_NextDeparture ==
  \A sub \in Subs :
    LET next == getNextDeparture(sub, shuttleTime)
        m == shuttleTime.minutesSinceMidnight
    IN  /\ Increasing(sub.departures) =>
             /\ next.error = "none"
             /\ IsSmallestAfter(next.value, sub.departures, m)
        /\ (sub.departures = <<"11:52 AM">> /\ m = 700) =>
             next = Returned(Found("11:52 AM"))
        /\ (sub.departures = <<"11:52 AM">> /\ m = 715) => next = Returned(NULL)

C12_Witness ==
  /\ shuttleTime.minutesSinceMidnight = 715
  /\ \E sub \in Subs :
       /\ sub.departures = <<"11:52 AM">>
       /\ getNextDeparture(sub, shuttleTime) = Returned(NULL)
  /\ \E sub \in Subs :
       /\ Increasing(sub.departures)
       /\ getNextDeparture(sub, shuttleTime) = Returned(Found("1:02 PM"))

\* the offset of the last stop, 0 without stops
TailOffset(sub) ==
  IF Len(sub.stops) = 0 THEN 0 ELSE sub.stops[Len(sub.stops)].offset

\* C13: isScheduleActive is false when today is not in daysOfWeek; otherwise,
\* with first/last the minutes of the first/last departure and tailOffset the
\* last stop's offset (0 without stops), it is true iff now >= first or
\* now <= last+tailOffset when last < first, and iff
\* first-5 <= now <= last+tailOffset when not.
C13_ScheduleActive ==
  \A sub \in Subs :
    LET active == isScheduleActive(sub, shuttleTime)
        now == shuttleTime.minutesSinceMidnight
    IN  /\ ~includes(sub.daysOfWeek, shuttleTime.dayOfWeek) => active = Returned(FALSE)
        /\ (includes(sub.daysOfWeek, shuttleTime.dayOfWeek) /\ Len(sub.departures) > 0) =>
             LET first == MinuteOf(sub.departures[1])
                 last == MinuteOf(sub.departures[Len(sub.departures)])
                 tailOffset == TailOffset(sub)
             IN  /\ active.error = "none"
                 /\ active.value =
                      IF last < first
                      THEN (now >= first \/ now <= last + tailOffset)
                      ELSE (first - 5 <= now /\ now <= last + tailOffset)

\* an overnight-crossing timetable, active after midnight within the tail offset
C13_Witness ==
  /\ cardRoute = bookstoreApartments
  /\ shuttleTime.minutesSinceMidnight = 190
  /\ \E sub \in Subs :
       /\ MinuteOf(sub.departures[Len(sub.departures)]) = 157
       /\ MinuteOf(sub.departures[1]) = 997
       /\ TailOffset(sub) = 36
       /\ isScheduleActive(sub, shuttleTime) = Returned(TRUE)

\* C14: a sub-schedule with an empty departures list is valid input: at every
\* minute of every day isScheduleActive returns false and getNextDeparture
\* returns none, and neither raises an error.
C14_EmptyDepartures ==
  \A sub \in Subs :
    Len(sub.departures) = 0 =>
      /\ isScheduleActive(sub, shuttleTime).error = "none"
      /\ isScheduleActive(sub, shuttleTime).value = FALSE
      /\ getNextDeparture(sub, shuttleTime).error = "none"
      /\ getNextDeparture(sub, shuttleTime).value = NULL

C14_Witness ==
  /\ shuttleTime.dayOfWeek = 3
  /\ \E sub \in Subs :
       /\ sub.departures = <<>>
       /\ includes(sub.daysOfWeek, shuttleTime.dayOfWeek)
       /\ isScheduleActive(sub, shuttleTime) = Returned(FALSE)
       /\ getNextDeparture(sub, shuttleTime) = Returned(NULL)

\* the card the panel renders for cardRoute
card ==
  RouteCard(cardRoute, shuttleTime,
            vehicleCountByRoute(activeVehicles, SCHEDULE_TO_API[cardRoute.routeName]))

\* the sub-schedules that run on today's day of week
TodaySubs == {sub \in Subs : includes(sub.daysOfWeek, shuttleTime.dayOfWeek)}

\* the departures getNextDeparture returns for today's sub-schedules
Candidates ==
  {getNextDeparture(sub, shuttleTime).value : sub \in TodaySubs} \ {NULL}

\* C17: the card's next departure is the one with the smallest minute of day
\* among the getNextDeparture results of exactly the sub-schedules whose
\* daysOfWeek contains today (none if they all return none), and its
\* countdown toMinutes(nextDep) - minutesSinceMidnight is strictly positive.
C17_CardNextDeparture ==
  /\ card.error = "none"
  /\ IF Candidates = {} THEN card.nextDep = NULL
     ELSE /\ card.nextDep \in Candidates
          /\ \A c \in Candidates : MinuteOf(card.nextDep[1]) <= MinuteOf(c[1])
  /\ card.nextDep # NULL =>
       /\ card.minsUntil =
            Num(MinuteOf(card.nextDep[1]) - shuttleTime.minutesSinceMidnight)
       /\ card.minsUntil[1] > 0

C17_Witness ==
  /\ cardRoute = shopping
  /\ Cardinality(TodaySubs) < Cardinality(Subs)
  /\ Candidates # {}
  /\ card.nextDep \in Candidates
  /\ card.minsUntil[1] > 0

(***************************************************************************)
(* Properties of the panel's "Running now" list.                           *)
(***************************************************************************)
\* cardRoute is listed under "Running now"
ShownRunning == isLiveSchedule(cardRoute, activeVehicles)

AnySubActive ==
  \E sub \in Subs : isScheduleActive(sub, shuttleTime) = Returned(TRUE)

HasLiveVehicle ==
  \E i \in 1 .. Len(activeVehicles) :
    activeVehicles[i].routeID = SCHEDULE_TO_API[cardRoute.routeName]

\* C16 as stated: a route is shown as running if and only if at least one of
\* its sub-schedules is active at the current time descriptor.
C16_RunningIffActive_AsStated == ShownRunning <=> AnySubActive

\* C16: a route is shown as running if and only if the latest vehicle
\* snapshot holds a vehicle on the route's API id, whatever isScheduleActive
\* says of its sub-schedules; a card without such a vehicle reads
\* "Not running now".
C16_RunningIffLiveVehicle ==
  /\ ShownRunning <=> HasLiveVehicle
  /\ (card.text = "Not running now") <=> ~HasLiveVehicle

\* a vehicle on the Wellness route at midnight, when no timetable is active
C16_Witness ==
  /\ cardRoute = wellness
  /\ shuttleTime.minutesSinceMidnight = 0
  /\ HasLiveVehicle
  /\ ~AnySubActive
  /\ ShownRunning
  /\ card.text = "Next"

(***************************************************************************)
(* Properties of parseShapePoints (lib/shuttle-api).                       *)
(***************************************************************************)
IsNumber(coordinate) == coordinate # NaN /\ coordinate # UndefinedValue

\* C19: whatever the encoded-points string, a pair whose lat or lng is not
\* numeric or is missing is rejected or skipped: every coordinate of the
\* returned list is a number, never NaN.
C19_NoNaNCoordinates ==
  \A i \in 1 .. Len(shapePoints) :
    /\ IsNumber(shapePoints[i][1])
    /\ IsNumber(shapePoints[i][2])

(***************************************************************************)
(* Properties of the engine outside its documented domain.                 *)
(***************************************************************************)
OutOfDomain ==
  \/ mins \notin 0 .. (MinutesPerDay - 1)
  \/ easternTime.dayOfWeek \notin 0 .. 6

Periods == {"overnight", "business", "open"}

CountdownLabels ==
  {"All lots open", "Business hours start", "Open hours start",
   "Overnight restriction"}

\* C20: given minutes outside [0,1440) or a day of week outside 0..6, the
\* period classifier, getLotStatus and getNextTransition signal an error:
\* none of them answers with a period, a status or a countdown.
C20_FailFast ==
  OutOfDomain =>
    /\ getCurrentPeriod(mins) \notin Periods
    /\ \A lot \in parkingLots : statuses[lot].color \notin StatusColor
    /\ nextTransition.label \notin CountdownLabels

(***************************************************************************)
(* Further properties of the lot statuses.                                 *)
(***************************************************************************)
OpenLots == {lot \in parkingLots : lot.category # "restricted"}

\* C24: on a weekend outside the overnight period every non-restricted lot is
\* green, whatever its category and overnightExempt flag, and the weekend
\* branch never gives its "Unavailable soon" (orange) result at any minute.
C24_WeekendAlwaysGreen ==
  /\ (weekend /\ ~InOvernight) =>
       \A lot \in OpenLots :
         statuses[lot] = LotStatus("green", "Available", Reason("Weekend - all lots open"))
  /\ \A lot \in OpenLots : weekendStatus(lot, mins).color # "orange"

\* a weekend night inside the 30 minutes before the overnight restriction
C24_Witness ==
  /\ weekend /\ mins = 165
  /\ minutesUntil(mins, OVERNIGHT_START) <= TRANSITION_WINDOW
  /\ statuses[Lot("student", FALSE)] =
       LotStatus("green", "Available", Reason("Weekend - all lots open"))

\* the label that goes with each color
LabelOf(color) ==
  CASE color = "green" -> "Available"
    [] color = "yellow" -> "Available soon"
    [] color = "orange" -> "Unavailable soon"
    [] color = "red" -> "Not available"

\* C27: the color and the label of every status getLotStatus returns
\* correspond one to one: green with "Available", yellow with
\* "Available soon", orange with "Unavailable soon", red with "Not available".
C27_ColorLabel ==
  \A lot \in parkingLots :
    /\ statuses[lot].color \in StatusColor
    /\ statuses[lot].label = LabelOf(statuses[lot].color)

\* a weekday afternoon with all four colors on the map
C27_Witness ==
  /\ ~weekend /\ mins = 970
  /\ statuses[Lot("employee", FALSE)].label = "Available soon"
  /\ statuses[Lot("student", FALSE)].label = "Available"
  /\ statuses[Lot("restricted", FALSE)].label = "Not available"

SoonColors == {"yellow", "orange"}

\* C28: whenever a lot is yellow or orange, getNextTransition for the same
\* time descriptor counts between 1 and 30 minutes (the transition window)
\* and that count is the number of minutes given in the status reason.
C28_StatusAgreesWithCountdown ==
  \A lot \in parkingLots :
    statuses[lot].color \in SoonColors =>
      /\ nextTransition.minutesUntil \in 1 .. TRANSITION_WINDOW
      /\ Len(statuses[lot].reason) = 2
      /\ statuses[lot].reason[2] = nextTransition.minutesUntil

\* an overnight-exempt employee lot twenty minutes before business hours
C28_Witness ==
  /\ ~weekend /\ mins = 400
  /\ statuses[Lot("employee", TRUE)].color = "orange"
  /\ statuses[Lot("employee", TRUE)].reason[2] = 20
  /\ nextTransition.minutesUntil = 20

\* C26: as the clock advances minute by minute through the week, the status
\* of a non-restricted lot never changes directly from green to red or from
\* red to green.
C26_NoDirectChange ==
  [][\A lot \in OpenLots :
       /\ ~(statuses[lot].color = "green" /\ statuses'[lot].color = "red")
       /\ ~(statuses[lot].color = "red" /\ statuses'[lot].color = "green")]_vars

(***************************************************************************)
(* components/ShuttlePanel.tsx: the departure rows of SubScheduleTable.    *)
(***************************************************************************)
\* one rendered row per departure, with its "passed" and "next" marks
SubScheduleTable(sub, eastern) ==
  LET currentMins == Num(eastern.minutesSinceMidnight)
      isToday == includes(sub.daysOfWeek, eastern.dayOfWeek)
      lastStopOffset ==
        IF Len(sub.stops) = 0 THEN 0 ELSE sub.stops[Len(sub.stops)].offset
      row(i) ==
        LET depMins == toMinutes(sub.departures[i]).value
            isPast == isToday /\ jsLt(jsAdd(depMins, Num(lastStopOffset)), currentMins)
            isNext == isToday /\ ~isPast /\ jsGt(depMins, currentMins)
            isFirstNext ==
              isNext /\ (i = 1 \/ jsLe(toMinutes(sub.departures[i - 1]).value, currentMins))
        IN  [dep |-> sub.departures[i], isPast |-> isPast, isFirstNext |-> isFirstNext]
  IN  [i \in 1 .. Len(sub.departures) |-> row(i)]

\* the rows of a rendered table that carry the "next" mark
NextRows(sub) ==
  {i \in 1 .. Len(sub.departures) : SubScheduleTable(sub, shuttleTime)[i].isFirstNext}

\* C29: for every sub-schedule that applies today and every minute,
\* SubScheduleTable marks at most one departure row as "next", and a marked
\* row is the departure getNextDeparture returns at that minute.
C29_SingleNextRow ==
  \A sub \in TodaySubs :
    /\ Cardinality(NextRows(sub)) <= 1
    /\ \A i \in NextRows(sub) :
         getNextDeparture(sub, shuttleTime) = Returned(Found(sub.departures[i]))

\* minutes from minute m until the departure next leaves, around the clock
CyclicWait(dep, m) == (MinuteOf(dep) - m) % 1440

\* C30: for every sub-schedule and every minute at which isScheduleActive is
\* true, a departure returned by getNextDeparture is the listed departure with
\* the smallest cyclic wait (toMinutes(d) - m) mod 1440, so an after-midnight
\* departure of a wraparound schedule is never skipped for a later one.
C30_ChronologicallyNext ==
  \A sub \in Subs :
    LET m == shuttleTime.minutesSinceMidnight
        next == getNextDeparture(sub, shuttleTime)
    IN  (isScheduleActive(sub, shuttleTime) = Returned(TRUE)
         /\ next.error = "none" /\ next.value # NULL) =>
          \A i \in 1 .. Len(sub.departures) :
            CyclicWait(next.value[1], m) <= CyclicWait(sub.departures[i], m)

(***************************************************************************)
(* Properties of the distance to a route shape (lib/shuttle-api).          *)
(***************************************************************************)
measured == distance # Pending

\* the distances from the point to each segment of the polyline
SegmentDistances ==
  {pointToSegmentDistance(point, polyline[i], polyline[i + 1]) :
     i \in 1 .. (Len(polyline) - 1)}

\* C21: pointToPolylineDistance returns the minimum of pointToSegmentDistance
\* over every consecutive pair of polyline points, +Infinity for a polyline
\* with fewer than two points, and 0 for the polyline [p, p] when point = p:
\* a segment whose ends coincide is measured as the distance to that end.
C21_PolylineDistance ==
  measured =>
    /\ distance.error = "none"
    /\ Len(polyline) < 2 => distance.value = Infinity
    /\ Len(polyline) >= 2 =>
         /\ distance.value \in SegmentDistances
         /\ \A d \in SegmentDistances : ~distanceLt(d, distance.value)
    /\ polyline = <<point, point>> => distance.value = Num(0)
    /\ \A i \in 1 .. (Len(polyline) - 1) :
         polyline[i] = polyline[i + 1] =>
           pointToSegmentDistance(point, polyline[i], polyline[i + 1])
             = approxDistanceMeters(point[1], point[2], polyline[i][1], polyline[i][2])

\* a shape whose first segment is nearer than its last: the point is 111 m
\* (0.001 degree of latitude) from the first segment
C21_Witness ==
  /\ measured
  /\ point = <<1712680, -3021440>>
  /\ polyline = <<<<1712640, -3021440>>, <<1712640, -3021400>>, <<1712720, -3021360>>>>
  /\ distance.value = Num(11120)
  /\ pointToSegmentDistance(point, polyline[2], polyline[3])[1] > 11120

(***************************************************************************)
(* Properties of proximity mode and the lot list (ParkingMap).             *)
(***************************************************************************)
\* proximity mode only with a location, never while locating, and off after
\* a request that failed
NearMeConsistent ==
  /\ nearMeActive => userLocation # NULL
  /\ ~(locatingUser /\ nearMeActive)
  /\ geolocation = "denied" => (~locatingUser /\ ~nearMeActive)

\* the step of a failing position request changes nothing but locatingUser
FailureLeavesAppAlone ==
  (geolocation = "pending" /\ geolocation' = "denied") =>
    /\ locatingUser /\ ~locatingUser' /\ ~nearMeActive'
    /\ UNCHANGED <<filterVars, statuses, easternTime, userLocation, nearMeActive>>

\* C22: across any sequence of Near-me clicks and geolocation callbacks,
\* nearMeActive implies userLocation is set, locatingUser and nearMeActive
\* are never both true, and a failed or denied request ends with
\* locatingUser = false and nearMeActive = false while filters, selection
\* and statuses are left unchanged.
C22_NearMeNeedsLocation == []NearMeConsistent /\ [][FailureLeavesAppAlone]_vars

\* a request denied after filters were set and a lot selected
C22_Witness ==
  /\ geolocation = "denied"
  /\ ~locatingUser /\ ~nearMeActive /\ userLocation = NULL
  /\ statusFilters = {"green"} /\ selectedLot = Found("lot-c") /\ search = "LOT"

\* the distance of a shown lot from the user location
shownDistance(i) == distanceOrInfinity(lotDistancesOf(userLocation), shownLots[i])

\* a lot passes the search box and the status and category filters
PassesFilters(lot) ==
  /\ (search = "" \/ stringIncludes(toLowerCase(lot.name), toLowerCase(search)))
  /\ (statusFilters = {} \/ statusOf(statuses, lot).color \in statusFilters)
  /\ (categoryFilters = {}
      \/ (lot.category \in categoryFilters)
      \/ (lot.overnightExempt /\ "overnightExempt" \in categoryFilters))

\* C23: while Near-me mode is active with a resolved user location, the lot
\* list contains only lots that are Green or Yellow and pass the search,
\* status and category filters, in order of non-decreasing distance from the
\* user location, and the list panel shows them in that order (no re-sort).
C23_NearMeList ==
  (nearMeActive /\ userLocation # NULL) =>
    /\ shownLots = filteredLots
    /\ \A i \in 1 .. Len(shownLots) :
         /\ statusOf(statuses, shownLots[i]).color \in {"green", "yellow"}
         /\ PassesFilters(shownLots[i])
    /\ \A i \in 1 .. (Len(shownLots) - 1) :
         ~distanceLt(shownDistance(i + 1), shownDistance(i))

\* Wednesday 06:40 from the south-west corner: the yellow student lot is
\* shown before the farther green one, against the colour order
C23_Witness ==
  /\ nearMeActive /\ userLocation = <<1712640, -3021440>>
  /\ easternTime = [minutesSinceMidnight |-> 400, dayOfWeek |-> 2]
  /\ search = "" /\ statusFilters = {} /\ categoryFilters = {}
  /\ Len(shownLots) = 2
  /\ shownLots[1].id = "lot-c" /\ statusOf(statuses, shownLots[1]).color = "yellow"
  /\ shownLots[2].id = "lot-b" /\ statusOf(statuses, shownLots[2]).color = "green"
  /\ distanceLt(shownDistance(1), shownDistance(2))

(***************************************************************************)
(* Properties of the panel's automatic route checks.                       *)
(***************************************************************************)
\* a step of the auto-toggle effect: the snapshot held becomes the processed one
ProcessesSnapshot ==
  processedVehicles # activeVehicles /\ processedVehicles' = activeVehicles

\* C25: the first non-empty vehicle snapshot only records a baseline and
\* toggles no route; after that, once a snapshot has been processed, every
\* route with a vehicle in the previous snapshot and none in the current one
\* is not in visibleRouteIDs, and every route with none in the previous
\* snapshot and one in the current one is in visibleRouteIDs.
C25_AutoToggle ==
  [][ProcessesSnapshot =>
       LET previous == liveRouteIDs(processedVehicles)
           current == liveRouteIDs(activeVehicles)
       IN  /\ (~baselineSet /\ current # {}) =>
                /\ visibleRouteIDs' = visibleRouteIDs
                /\ baselineSet' /\ prevLive' = current
           /\ baselineSet =>
                /\ \A id \in previous \ current : id \notin visibleRouteIDs'
                /\ \A id \in current \ previous : id \in visibleRouteIDs']_vars

====
